---------------------------- MODULE Spec2Model ----------------------------
(***************************************************************************)
(* A model of textlint-plugin-review's Re:VIEW parser.                     *)
(*                                                                         *)
(* Strings are sequences of one-character strings.  Every index kept in    *)
(* the state (startIndex, column, range) is the 0-based JavaScript index;  *)
(* CharAt, Slice and Substr convert to the 1-based sequences of TLA+.      *)
(***************************************************************************)
EXTENDS Integers, Sequences, FiniteSets, TLC

(***************************************************************************)
(* Characters and character classes of the regular expressions.            *)
(***************************************************************************)
LF == "\n"
CR == "\r"
TAB == "\t"
BS == "\\"

Letters ==
  {"a", "b", "c", "d", "e", "f", "g", "h", "i", "j", "k", "l", "m",
   "n", "o", "p", "q", "r", "s", "t", "u", "v", "w", "x", "y", "z", "H"}

Digits == {"0", "1", "2", "3", "4", "5", "6", "7", "8", "9"}

\* \w of a JavaScript regular expression
WordChars == Letters \cup Digits \cup {"_"}

\* \s of a JavaScript regular expression (the members the model can hold)
SpaceChars == {" ", TAB, CR, LF}

\* the characters "." of a regular expression does not match
LineBreakChars == {CR, LF}

(***************************************************************************)
(* String primitives (String.prototype of JavaScript).                     *)
(***************************************************************************)
Min(a, b) == IF a < b THEN a ELSE b

Max(a, b) == IF a > b THEN a ELSE b

\* s[i], 0-based; "undefined" outside the string
CharAt(s, i) == IF i >= 0 /\ i < Len(s) THEN s[i + 1] ELSE "undefined"

\* s.slice(a, b) for 0 <= a
Slice(s, a, b) == SubSeq(s, Min(a, Len(s)) + 1, Min(b, Len(s)))

\* s.substr(start, length)
Substr(s, start, n) == Slice(s, start, start + n)

\* s.substr(start)
SubstrFrom(s, start) == Slice(s, start, Len(s))

\* s.startsWith(p)
StartsWith(s, p) == Len(s) >= Len(p) /\ SubSeq(s, 1, Len(p)) = p

\* s.endsWith(p)
EndsWith(s, p) == Len(s) >= Len(p) /\ SubSeq(s, Len(s) - Len(p) + 1, Len(s)) = p

\* s.indexOf(c, from) for a one-character c; -1 when absent
RECURSIVE IndexOfChar(_, _, _)
IndexOfChar(s, c, from) ==
  IF from >= Len(s) THEN -1
  ELSE IF s[from + 1] = c THEN from
  ELSE IndexOfChar(s, c, from + 1)

\* s.indexOf(p, from) for a string p; -1 when absent
RECURSIVE IndexOf(_, _, _)
IndexOf(s, p, from) ==
  IF from + Len(p) > Len(s) THEN -1
  ELSE IF SubSeq(s, from + 1, from + Len(p)) = p THEN from
  ELSE IndexOf(s, p, from + 1)

\* number of consecutive characters of class cls in s from 0-based index i
RECURSIVE RunLen(_, _, _)
RunLen(s, i, cls) ==
  IF i < Len(s) /\ s[i + 1] \in cls THEN 1 + RunLen(s, i + 1, cls) ELSE 0

\* number of consecutive characters outside cls in s from 0-based index i
RECURSIVE RunLenNot(_, _, _)
RunLenNot(s, i, cls) ==
  IF i < Len(s) /\ s[i + 1] \notin cls THEN 1 + RunLenNot(s, i + 1, cls) ELSE 0

\* concatenation of a sequence of strings: Array.prototype.join('')
RECURSIVE Join(_)
Join(ss) == IF ss = <<>> THEN <<>> ELSE Head(ss) \o Join(Tail(ss))

(***************************************************************************)
(* text.match(/(?:.*\r?\n|.+$)/g): the lines with their line endings.      *)
(* MatchLineAt gives the length of the match that starts at index p, or 0  *)
(* when the expression does not match there.  "." matches neither \r nor   *)
(* \n, so the greedy .* can only be followed by \r?\n at the end of the    *)
(* run; .+$ needs a non-empty run that reaches the end of the text.        *)
(***************************************************************************)
MatchLineAt(text, p) ==
  LET run == RunLenNot(text, p, LineBreakChars)
      q == p + run
  IN  IF CharAt(text, q) = LF THEN run + 1
      ELSE IF CharAt(text, q) = CR /\ CharAt(text, q + 1) = LF THEN run + 2
      ELSE IF run > 0 /\ q = Len(text) THEN run
      ELSE 0

\* the successive matches from index p on; <<>> stands for null (no match)
RECURSIVE MatchLinesFrom(_, _)
MatchLinesFrom(text, p) ==
  IF p >= Len(text) THEN <<>>
  ELSE LET n == MatchLineAt(text, p)
       IN  IF n = 0 THEN MatchLinesFrom(text, p + 1)
           ELSE <<Substr(text, p, n)>> \o MatchLinesFrom(text, p + n)

SplitLines(text) == MatchLinesFrom(text, 0)

\* currentLine.replace(/\r?\n$/, '')
StripLineEnding(raw) ==
  IF EndsWith(raw, <<CR, LF>>) THEN SubSeq(raw, 1, Len(raw) - 2)
  ELSE IF EndsWith(raw, <<LF>>) THEN SubSeq(raw, 1, Len(raw) - 1)
  ELSE raw

(***************************************************************************)
(* The chunker: parseAsChunks.                                             *)
(***************************************************************************)
ChunkTypes ==
  {"Paragraph", "Heading", "UnorderedList", "OrderedList", "DefinitionList", "Block"}

\* the Line object built for each element of lines
MakeLine(currentLine, index, startIndex) ==
  [raw |-> currentLine,
   text |-> StripLineEnding(currentLine),
   lineNumber |-> index + 1,
   startIndex |-> startIndex]

createChunk(type, firstLine) ==
  [type |-> type, lines |-> <<firstLine>>, raw |-> <<>>]

\* line.text.startsWith('#@')
IsCommentLine(text) == StartsWith(text, <<"#", "@">>)

\* line.text.startsWith('//}')
IsBlockClose(text) == StartsWith(text, <<"/", "/", "}">>)

\* line.text.match(/^\/\/\w+/)
IsBlockOpen(text) ==
  StartsWith(text, <<"/", "/">>) /\ CharAt(text, 2) \in WordChars

\* a block that stays open when its line holds a "{" anywhere
StaysOpenOnAnyBrace(text) == \E i \in 1..Len(text) : text[i] = "{"

\* line.text.endsWith('{')
StaysOpen(text) == EndsWith(text, <<"{">>)

\* line.text.startsWith('=')
IsHeadingLine(text) == StartsWith(text, <<"=">>)

\* length of the match of /^\s+X+\s+/ for a character class X; 0: no match
MarkerPrefixLen(text, cls) ==
  LET n1 == RunLen(text, 0, SpaceChars)
      n2 == RunLen(text, n1, cls)
      n3 == RunLen(text, n1 + n2, SpaceChars)
  IN  IF n1 > 0 /\ n2 > 0 /\ n3 > 0 THEN n1 + n2 + n3 ELSE 0

\* length of the match of /^\s+\*+\s+/
UnorderedPrefixLen(text) == MarkerPrefixLen(text, {"*"})

\* length of the match of /^\s+\d+\.\s+/
OrderedPrefixLen(text) ==
  LET n1 == RunLen(text, 0, SpaceChars)
      n2 == RunLen(text, n1, Digits)
      n3 == RunLen(text, n1 + n2 + 1, SpaceChars)
  IN  IF n1 > 0 /\ n2 > 0 /\ CharAt(text, n1 + n2) = "." /\ n3 > 0
      THEN n1 + n2 + 1 + n3 ELSE 0

\* length of the match of /^\s+:\s+/
DefinitionPrefixLen(text) ==
  LET n1 == RunLen(text, 0, SpaceChars)
      n3 == RunLen(text, n1 + 1, SpaceChars)
  IN  IF n1 > 0 /\ CharAt(text, n1) = ":" /\ n3 > 0 THEN n1 + 1 + n3 ELSE 0

\* length of the match of /^\s+/
IndentLen(text) == RunLen(text, 0, SpaceChars)

\* a push that always goes to the first chunk of the result
PushLineToFirst(st, line) ==
  [st EXCEPT !.result[1].lines = Append(@, line)]

\* currentChunk.lines.push(line): currentChunk is the chunk result[cur]
PushLine(st, line) ==
  [st EXCEPT !.result[st.cur].lines = Append(@, line)]

\* flushChunk()
flushChunk(st) == [st EXCEPT !.cur = 0]

\* result.push(createChunk(type, line)), currentChunk set to it when keep
StartChunk(st, type, line, keep) ==
  [result |-> Append(st.result, createChunk(type, line)),
   cur |-> IF keep THEN Len(st.result) + 1 ELSE 0]

CurrentIs(st, type) == st.cur # 0 /\ st.result[st.cur].type = type

\* a list line: continue the open chunk of that kind or start a new one
ListLine(st, type, line) ==
  IF CurrentIs(st, type) THEN PushLine(st, line)
  ELSE StartChunk(flushChunk(st), type, line, TRUE)

\* a comment branch that closes the current chunk
CommentLineClosesChunk(st, line) == flushChunk(st)

\* a comment branch that takes the line as paragraph text
CommentLineAsText(st, line) == ListLine(st, "Paragraph", line)

\* the comment branch of parseLine: the line is ignored
CommentLine(st, line) == st

\* the block-content branch of parseLine
BlockContentLine(st, line) ==
  IF IsBlockClose(line.text) THEN flushChunk(PushLine(st, line))
  ELSE PushLine(st, line)

\* the block-open branch of parseLine
BlockOpenLine(st, line) ==
  StartChunk(flushChunk(st), "Block", line, StaysOpen(line.text))

\* a heading branch without flushChunk(): the current chunk stays open
HeadingLineWithoutFlush(st, line) ==
  [result |-> Append(st.result, createChunk("Heading", line)), cur |-> st.cur]

\* the heading branch of parseLine
HeadingLine(st, line) == StartChunk(flushChunk(st), "Heading", line, FALSE)

\* parseLine(result, line) of parseAsChunks; st = [result, cur] holds the
\* result array and the closure variable currentChunk (0: null)
parseLine(st, line) ==
  IF IsCommentLine(line.text) THEN CommentLine(st, line)
  ELSE IF CurrentIs(st, "Block") THEN BlockContentLine(st, line)
  ELSE IF IsBlockOpen(line.text) THEN BlockOpenLine(st, line)
  ELSE IF IsHeadingLine(line.text) THEN HeadingLine(st, line)
  ELSE IF UnorderedPrefixLen(line.text) > 0 THEN ListLine(st, "UnorderedList", line)
  ELSE IF OrderedPrefixLen(line.text) > 0 THEN ListLine(st, "OrderedList", line)
  ELSE IF DefinitionPrefixLen(line.text) > 0 THEN ListLine(st, "DefinitionList", line)
  ELSE IF IndentLen(line.text) > 0 /\ CurrentIs(st, "DefinitionList")
       THEN PushLine(st, line)
  ELSE IF line.text = <<>> THEN flushChunk(st)
  ELSE ListLine(st, "Paragraph", line)

\* a raw joined from the chunk's own lines only
ChunkRawOfOwnLines(lines, chunk) ==
  Join([k \in 1..Len(chunk.lines) |-> chunk.lines[k].raw])

\* chunk.raw = lines.slice(firstLineIndex, lastLineIndex + 1).join('')
ChunkRaw(lines, chunk) ==
  LET firstLineIndex == chunk.lines[1].lineNumber - 1
      lastLineIndex == chunk.lines[Len(chunk.lines)].lineNumber - 1
  IN  Join(SubSeq(lines, firstLineIndex + 1, lastLineIndex + 1))


(***************************************************************************)
(* Node construction (parser-utils).  A Context is the absolute position   *)
(* of a piece of text: [startIndex, lineNumber, startColumn] and the two   *)
(* unescape flags (FALSE where JavaScript leaves them undefined).          *)
(***************************************************************************)
contextFromLine(line, offset) ==
  [startIndex |-> line.startIndex + offset,
   lineNumber |-> line.lineNumber,
   startColumn |-> offset,
   unescapeBraces |-> FALSE,
   unescapeBrackets |-> FALSE]

offsetContext(originalContext, offset) ==
  [originalContext EXCEPT !.startIndex = @ + offset, !.startColumn = @ + offset]

contextNeedsUnescapeBraces(originalContext) ==
  [originalContext EXCEPT !.unescapeBraces = TRUE]

contextNeedsUnescapeBrackets(originalContext) ==
  [originalContext EXCEPT !.unescapeBrackets = TRUE]

\* value.replace(/\\c/g, 'c') for a one-character c: every backslash that
\* is followed by c is dropped
RECURSIVE UnescapeChar(_, _)
UnescapeChar(s, c) ==
  IF s = <<>> THEN <<>>
  ELSE IF Len(s) >= 2 /\ s[1] = BS /\ s[2] = c
       THEN <<c>> \o UnescapeChar(SubSeq(s, 3, Len(s)), c)
  ELSE <<s[1]>> \o UnescapeChar(Tail(s), c)

\* the value of a text node: raw with the escapes the context asks for resolved
unescapeValue(raw, context) ==
  LET v1 == IF context.unescapeBraces THEN UnescapeChar(raw, "}") ELSE raw
  IN  IF context.unescapeBrackets THEN UnescapeChar(v1, "]") ELSE v1

\* the node that stands for a failed assert: the call has thrown
Thrown == [type |-> "throw"]

\* text.match(/[\r\n]/)
HasLineBreak(text) == \E i \in 1..Len(text) : text[i] \in LineBreakChars

createInlineNode(type, raw, context) ==
  IF HasLineBreak(raw) THEN Thrown
  ELSE
  [type |-> type,
   raw |-> raw,
   range |-> <<context.startIndex, context.startIndex + Len(raw)>>,
   loc |-> [start |-> [line |-> context.lineNumber, column |-> context.startColumn],
            end |-> [line |-> context.lineNumber,
                     column |-> context.startColumn + Len(raw)]]]

createStrNode(raw, context) ==
  createInlineNode("Str", raw, context) @@ [value |-> unescapeValue(raw, context)]

\* createNodeFromLine(line, type) as chunk-parsers.js calls it
createNodeFromLine(line, type) ==
  createInlineNode(type, line.text, contextFromLine(line, 0))

createCommentNodeFromLine(line) == createNodeFromLine(line, "Comment")

createNodeFromLinesInChunk(type, lines, chunk) ==
  LET firstLine == lines[1]
      lastLine == lines[Len(lines)]
      chunkStartIndex == chunk.lines[1].startIndex
      startIndex == firstLine.startIndex
      endIndex == lastLine.startIndex + Len(lastLine.text)
  IN  [type |-> type,
       raw |-> Slice(chunk.raw, startIndex - chunkStartIndex, endIndex - chunkStartIndex),
       range |-> <<startIndex, endIndex>>,
       loc |-> [start |-> [line |-> firstLine.lineNumber, column |-> 0],
                end |-> [line |-> lastLine.lineNumber, column |-> Len(lastLine.text)]]]

\* Syntax[chunk.type]
SyntaxOfChunk(type) ==
  CASE type = "Paragraph" -> "Paragraph"
    [] type = "Heading" -> "Header"
    [] type \in {"UnorderedList", "OrderedList", "DefinitionList"} -> "List"
    [] OTHER -> "undefined"

createNodeFromChunk(chunk, type) == createNodeFromLinesInChunk(type, chunk.lines, chunk)

(***************************************************************************)
(* findInlineTag: the first @<name>{ opener and the first closing brace    *)
(* after it that no backslash precedes.                                    *)
(***************************************************************************)
\* text.match(/@<(\w+)>\{/) tried at index i: the length of the name, 0: no match
OpenerNameLenAt(text, i) ==
  LET n == RunLen(text, i + 2, WordChars)
  IN  IF CharAt(text, i) = "@" /\ CharAt(text, i + 1) = "<" /\ n > 0
         /\ CharAt(text, i + 2 + n) = ">" /\ CharAt(text, i + 3 + n) = "{"
      THEN n ELSE 0

\* match.index of the leftmost match from index i on; -1: no match
RECURSIVE OpenerIndexFrom(_, _)
OpenerIndexFrom(text, i) ==
  IF i >= Len(text) THEN -1
  ELSE IF OpenerNameLenAt(text, i) > 0 THEN i
  ELSE OpenerIndexFrom(text, i + 1)

\* one pass of the while (true) loop: the index of the next "}"
NextClose(text, fromIndex) == IndexOfChar(text, "}", fromIndex)

\* a scan that takes the first "}" whatever precedes it
NotEscapedAlways(text, closeIndex) == TRUE

\* text[closeIndex - 1] != '\\'
NotEscaped(text, closeIndex) == CharAt(text, closeIndex - 1) # BS

\* the while (true) loop: closeIndex when the loop is left
RECURSIVE CloseIndexFrom(_, _)
CloseIndexFrom(text, fromIndex) ==
  CHOOSE left \in
    {IF closeIndex < 0 THEN -1
     ELSE IF NotEscaped(text, closeIndex) THEN closeIndex
     ELSE CloseIndexFrom(text, closeIndex + 1) :
       closeIndex \in {NextClose(text, fromIndex)}} : TRUE

\* the values fromIndex takes in the passes of the while (true) loop
RECURSIVE ScanIndices(_, _)
ScanIndices(text, fromIndex) ==
  <<fromIndex>> \o
    (IF NextClose(text, fromIndex) >= 0 /\ ~NotEscaped(text, NextClose(text, fromIndex))
     THEN ScanIndices(text, NextClose(text, fromIndex) + 1)
     ELSE <<>>)

NoTag == [found |-> FALSE]

\* a Tag object whose followingText is the whole text searched
TagAtKeepingText(text, index, nameLen, closeIndex) ==
  IF closeIndex < 0 THEN NoTag
  ELSE [found |-> TRUE,
        name |-> Substr(text, index + 2, nameLen),
        content |-> [raw |-> Substr(text, index + nameLen + 4,
                                    (closeIndex - 1) - (index + nameLen + 4) + 1),
                     index |-> nameLen + 4],
        fullText |-> Substr(text, index, closeIndex - index + 1),
        precedingText |-> Substr(text, 0, index),
        followingText |-> text]

\* the Tag object, for an opener at index with a name of nameLen characters
\* and the closing brace at closeIndex (closeIndex < 0: not found)
TagAt(text, index, nameLen, closeIndex) ==
  IF closeIndex < 0 THEN NoTag
  ELSE [found |-> TRUE,
        name |-> Substr(text, index + 2, nameLen),
        content |-> [raw |-> Substr(text, index + nameLen + 4,
                                    (closeIndex - 1) - (index + nameLen + 4) + 1),
                     index |-> nameLen + 4],
        fullText |-> Substr(text, index, closeIndex - index + 1),
        precedingText |-> Substr(text, 0, index),
        followingText |-> SubstrFrom(text, closeIndex + 1)]

\* findInlineTag once the opener is matched: contentStartIndex is
\* match.index + match[0].length, and match[0] is @<name>{
TagOfOpener(text, index, nameLen) ==
  CHOOSE tag \in
    {TagAt(text, index, nameLen, closeIndex) :
       closeIndex \in {CloseIndexFrom(text, index + nameLen + 4)}} : TRUE

\* findInlineTag once text.match(/@<(\w+)>\{/) is evaluated
TagFromIndex(text, index) ==
  IF index < 0 THEN NoTag
  ELSE TagOfOpener(text, index, OpenerNameLenAt(text, index))

findInlineTag(text) ==
  CHOOSE tag \in {TagFromIndex(text, index) : index \in {OpenerIndexFrom(text, 0)}} : TRUE

(***************************************************************************)
(* The inline parsers.  A failed assert of the JavaScript code is the      *)
(* node Thrown: it stays in the tree the builders assemble, and parse      *)
(* raises when the tree holds one.                                         *)
(***************************************************************************)
\* the tag names of InlineParsers that inlineTextTagParser serves
TextTagNames ==
  {<<"k", "w">>,
   <<"b", "o", "u">>,
   <<"a", "m", "i">>,
   <<"u">>,
   <<"b">>,
   <<"i">>,
   <<"s", "t", "r", "o", "n", "g">>,
   <<"e", "m">>,
   <<"t", "t">>,
   <<"t", "t", "i">>,
   <<"t", "t", "b">>,
   <<"t", "c", "y">>}

\* the tag names of InlineParsers that inlineNonTextTagParser(Syntax.Reference) serves
ReferenceTagNames ==
  {<<"c", "h", "a", "p">>,
   <<"t", "i", "t", "l", "e">>,
   <<"c", "h", "a", "p", "r", "e", "f">>,
   <<"l", "i", "s", "t">>,
   <<"i", "m", "g">>,
   <<"t", "a", "b", "l", "e">>,
   <<"h", "d">>,
   <<"c", "o", "l", "u", "m", "n">>,
   <<"f", "n">>}

RubyTagName == <<"r", "u", "b", "y">>

HrefTagName == <<"h", "r", "e", "f">>

CodeTagName == <<"c", "o", "d", "e">>

\* the other non-text tags: uchar, br, icon, m, raw
OtherTagNames ==
  {<<"u", "c", "h", "a", "r">>,
   <<"b", "r">>,
   <<"i", "c", "o", "n">>,
   <<"m">>,
   <<"r", "a", "w">>}

\* the keys of InlineParsers
InlineParserNames ==
  TextTagNames \cup ReferenceTagNames \cup OtherTagNames
    \cup {RubyTagName, HrefTagName, CodeTagName}

\* the node type each entry of InlineParsers passes to its parser (Syntax)
InlineTagType(name) ==
  CASE name \in {<<"k", "w">>, <<"b">>, <<"s", "t", "r", "o", "n", "g">>, <<"t", "t", "b">>} -> "Strong"
    [] name \in {<<"b", "o", "u">>,
                 <<"a", "m", "i">>,
                 <<"u">>,
                 <<"i">>,
                 <<"e", "m">>,
                 <<"t", "t", "i">>} -> "Emphasis"
    [] name \in {<<"t", "t">>, <<"t", "c", "y">>} -> "Inline"
    [] name \in ReferenceTagNames -> "Reference"
    [] name = <<"u", "c", "h", "a", "r">> -> "NonString"
    [] name = <<"b", "r">> -> "Break"
    [] name = <<"i", "c", "o", "n">> -> "Image"
    [] name = <<"m">> -> "NonString"
    [] name = <<"r", "a", "w">> -> "NonString"
    [] name = RubyTagName -> "Ruby"
    [] name = HrefTagName -> "Link"
    [] name = CodeTagName -> "Code"
    [] OTHER -> "undefined"

parseInlineNonTextTag(type, tag, context) ==
  createInlineNode(type, tag.fullText, context)

parseInlineTextTag(type, tag, context) ==
  createInlineNode(type, tag.fullText, context)
    @@ [children |->
          <<createStrNode(tag.content.raw, offsetContext(context, tag.content.index))>>]

parseCodeTag(tag, context) ==
  createInlineNode("Code", tag.fullText, context)
    @@ [value |-> unescapeValue(tag.content.raw, context)]

\* the length of the white-space run of s that ends right before index i
RECURSIVE RunLenBefore(_, _)
RunLenBefore(s, i) ==
  IF i > 0 /\ s[i] \in SpaceChars THEN 1 + RunLenBefore(s, i - 1) ELSE 0

\* the first match of /\s*,\s*/ in s from index from on, its comma at index
\* comma: <<start, end>> of the separator; <<-1, -1>>: no match
SeparatorAt(s, comma) ==
  IF comma < 0 THEN <<-1, -1>>
  ELSE <<comma - RunLenBefore(s, comma), comma + 1 + RunLen(s, comma + 1, SpaceChars)>>

FirstSeparator(s, from) == SeparatorAt(s, IndexOfChar(s, ",", from))

\* the second piece: from the end of the first separator to the next one
SecondPiece(s, from, sep2) ==
  IF sep2[1] < 0 THEN SubstrFrom(s, from) ELSE Slice(s, from, sep2[1])

PiecesOf(s, sep1) ==
  IF sep1[1] < 0 THEN <<s>>
  ELSE <<Slice(s, 0, sep1[1]), SecondPiece(s, sep1[2], FirstSeparator(s, sep1[2]))>>

\* s.split(/\s*,\s*/, 2)
SplitComma2(s) == PiecesOf(s, FirstSeparator(s, 0))

\* the Link node once label and labelOffset are known
HrefNode(tag, context, url, label, labelOffset) ==
  IF labelOffset >= tag.content.index
  THEN createInlineNode("Link", tag.fullText, context)
         @@ [url |-> url,
             children |-> <<createStrNode(label, offsetContext(context, labelOffset))>>]
  ELSE Thrown

HrefOfPieces(tag, context, pieces) ==
  IF Len(pieces) = 2
  THEN HrefNode(tag, context, pieces[1], pieces[2],
                tag.content.index + IndexOf(tag.content.raw, pieces[2], Len(pieces[1])))
  ELSE HrefNode(tag, context, pieces[1], pieces[1], tag.content.index)

parseHrefTag(tag, context) == HrefOfPieces(tag, context, SplitComma2(tag.content.raw))

\* the Ruby node once the content is split; assert(pieces.length == 2)
RubyOfPieces(tag, context, pieces) ==
  IF Len(pieces) = 2
  THEN createInlineNode("Ruby", tag.fullText, context)
         @@ [rubyText |-> pieces[2],
             children |-> <<createStrNode(pieces[1], context)>>]
  ELSE Thrown

parseRubyTag(tag, context) == RubyOfPieces(tag, context, SplitComma2(tag.content.raw))

\* the names BlockParsers and InlineParsers, object literals, inherit from
\* Object.prototype and that the inputs of the model use: the lookup of
\* "constructor" yields the function Object
InheritedNames == {<<"c", "o", "n", "s", "t", "r", "u", "c", "t", "o", "r">>}

\* Object(block), Object(tag): the Block or Tag object itself, which has no
\* type, raw, range or loc
InheritedParser(block) == [type |-> "undefined"] @@ block

\* parser(tag, context) for parser = InlineParsers[tag.name]
InlineParser(tag, context) ==
  IF tag.name \in TextTagNames
    THEN parseInlineTextTag(InlineTagType(tag.name), tag, context)
  ELSE IF tag.name = RubyTagName THEN parseRubyTag(tag, context)
  ELSE IF tag.name = HrefTagName THEN parseHrefTag(tag, context)
  ELSE IF tag.name = CodeTagName THEN parseCodeTag(tag, context)
  ELSE parseInlineNonTextTag(InlineTagType(tag.name), tag, context)

\* the context after the Str node of the preceding text, if any
AfterPreceding(tag, context) ==
  IF tag.precedingText # <<>>
  THEN offsetContext(context, Len(tag.precedingText))
  ELSE context

\* the nodes one pass of the while loop of parseText pushes
PassNodes(tag, context) ==
  (IF tag.precedingText # <<>>
   THEN <<createStrNode(tag.precedingText, context)>> ELSE <<>>)
  \o (IF tag.name \in InlineParserNames
      THEN <<InlineParser(tag, contextNeedsUnescapeBraces(AfterPreceding(tag, context)))>>
      ELSE IF tag.name \in InheritedNames THEN <<InheritedParser(tag)>>
      ELSE <<>>)

\* a pass that forgets to move the context past the preceding text
PassContextWithoutPreceding(tag, context) ==
  offsetContext(context, Len(tag.fullText))

\* the context one pass of the while loop of parseText ends with
PassContext(tag, context) ==
  offsetContext(AfterPreceding(tag, context), Len(tag.fullText))

\* a return that drops the text left
FinalNodesDropped(text, context) == <<>>

\* the nodes pushed after the loop: the final Str
FinalNodes(text, context) ==
  IF Len(text) > 0 THEN <<createStrNode(text, context)>> ELSE <<>>

\* the while loop of parseText and what follows it
RECURSIVE parseTextLoop(_, _)
\* one evaluation of the loop condition tag = findInlineTag(text) and the
\* pass, or the end of the loop, that follows it
LoopPass(text, context, tag) ==
  IF tag.found
  THEN PassNodes(tag, context)
         \o parseTextLoop(tag.followingText, PassContext(tag, context))
  ELSE FinalNodes(text, context)

parseTextLoop(text, context) == LoopPass(text, context, findInlineTag(text))

parseText(text, context) ==
  IF HasLineBreak(text) THEN <<Thrown>> ELSE parseTextLoop(text, context)

\* line.isComment: the chunker never sets it
LineIsComment(line) == "isComment" \in DOMAIN line /\ line.isComment

\* parseLine(line) of inline-parsers.js
inlineParseLine(line) ==
  IF LineIsComment(line) THEN <<createCommentNodeFromLine(line)>>
  ELSE parseText(line.text, contextFromLine(line, 0))


(***************************************************************************)
(* The chunk parsers (ChunkParsers) and the block parsers (BlockParsers).  *)
(* A parser returns a sequence of at most one node: <<>> stands for null.  *)
(***************************************************************************)
\* the concatenation of f-images: Array.prototype.push.apply over a forEach
RECURSIVE ConcatNodes(_)
ConcatNodes(nodeLists) ==
  IF nodeLists = <<>> THEN <<>> ELSE Head(nodeLists) \o ConcatNodes(Tail(nodeLists))

\* the inline nodes of the first line only
parseParagraphOfFirstLine(chunk) ==
  <<createNodeFromChunk(chunk, SyntaxOfChunk(chunk.type))
      @@ [children |-> inlineParseLine(chunk.lines[1])]>>

parseParagraph(chunk) ==
  LET node == createNodeFromChunk(chunk, SyntaxOfChunk(chunk.type))
  IN  <<node @@ [children |->
        ConcatNodes([i \in 1..Len(chunk.lines) |-> inlineParseLine(chunk.lines[i])])]>>

\* match[2].trim() of parseHeading: both ends stripped of white space
Trim(s) ==
  LET lead == RunLen(s, 0, SpaceChars)
      rest == SubstrFrom(s, lead)
      keep == IF rest = <<>> THEN 0
              ELSE CHOOSE n \in 1..Len(rest) :
                     /\ rest[n] \notin SpaceChars
                     /\ \A k \in (n + 1)..Len(rest) : rest[k] \in SpaceChars
  IN  SubSeq(rest, 1, keep)

\* line.text.match(/(=+)\S*\s*(.*)/) on a line that starts with "="
HeadingMatch(text) ==
  LET depth == RunLen(text, 0, {"="})
      skip == RunLenNot(text, depth, SpaceChars)
      space == RunLen(text, depth + skip, SpaceChars)
  IN  [depth |-> depth, rest |-> SubstrFrom(text, depth + skip + space)]

\* the Header node once depth, label and labelOffset are known
HeadingNode(line, depth, label, labelOffset) ==
  IF labelOffset >= 0
  THEN createNodeFromLine(line, "Header")
         @@ [depth |-> depth, label |-> label,
             children |-> <<createInlineNode("Str", label,
                                             contextFromLine(line, labelOffset))>>]
  ELSE Thrown

HeadingOfLabel(line, depth, label) ==
  HeadingNode(line, depth, label, IndexOf(line.text, label, 0))

HeadingOfMatch(line, match) == HeadingOfLabel(line, match.depth, Trim(match.rest))

parseHeading(chunk) == <<HeadingOfMatch(chunk.lines[1], HeadingMatch(chunk.lines[1].text))>>

\* a prefixRegex of definition lists that matches term lines only
ListPrefixLenOfTermsOnly(chunkType, text) ==
  CASE chunkType = "UnorderedList" -> UnorderedPrefixLen(text)
    [] chunkType = "OrderedList" -> OrderedPrefixLen(text)
    [] chunkType = "DefinitionList" -> DefinitionPrefixLen(text)

\* the length of the match of the prefixRegex ChunkParsers passes to parseList
ListPrefixLen(chunkType, text) ==
  CASE chunkType = "UnorderedList" -> UnorderedPrefixLen(text)
    [] chunkType = "OrderedList" -> OrderedPrefixLen(text)
    [] chunkType = "DefinitionList" ->
         IF DefinitionPrefixLen(text) > 0 THEN DefinitionPrefixLen(text)
         ELSE IndentLen(text)

ListItemNode(chunkType, line) ==
  LET itemNode == createNodeFromLine(line, "ListItem")
      itemText == SubstrFrom(line.text, ListPrefixLen(chunkType, line.text))
      startColumn == Len(line.text) - Len(itemText)
  IN  itemNode @@ [children |-> parseText(itemText, contextFromLine(line, startColumn))]

parseList(chunk) ==
  LET node == createNodeFromChunk(chunk, SyntaxOfChunk(chunk.type))
  IN  <<node @@ [children |->
        [i \in 1..Len(chunk.lines) |-> ListItemNode(chunk.type, chunk.lines[i])]]>>

\* the matches of /\[(.*?)\]/g in argsText from index pos on
RECURSIVE BlockArgsFrom(_, _, _)
BlockArgsFrom(argsText, pos, offset) ==
  LET open == IndexOfChar(argsText, "[", pos)
      close == IndexOfChar(argsText, "]", open + 1)
  IN  IF open < 0 \/ close < 0 THEN <<>>
      ELSE <<[value |-> Slice(argsText, open + 1, close),
              startColumn |-> offset + open + 1]>>
             \o BlockArgsFrom(argsText, close + 1, offset)

parseBlockArgs(argsText, offset) == BlockArgsFrom(argsText, 0, offset)

\* the node of a block argument in its context
ArgNode(type, argText, blockArgContext) ==
  createInlineNode(type, argText, blockArgContext)
    @@ [children |-> parseText(argText, blockArgContext)]

parseBlockArg(type, blockArg, line) ==
  IF blockArg.value = <<>> THEN <<>>
  ELSE <<ArgNode(type, blockArg.value,
                 contextNeedsUnescapeBrackets(contextFromLine(line, blockArg.startColumn)))>>

\* chunk.lines.slice(1): the closing line is kept
InnerLinesWithCloser(chunk) == SubSeq(chunk.lines, 2, Len(chunk.lines))

\* chunk.lines.slice(1, chunk.lines.length - 1)
InnerLines(chunk) == SubSeq(chunk.lines, 2, Len(chunk.lines) - 1)

\* the paragraphs of parseBlockWithContent: lines is the run collected so far
RECURSIVE ContentParagraphs(_, _, _)
\* flushParagraph() of parseBlockWithContent
flushParagraph(chunk, lines) ==
  IF Len(lines) > 0
  THEN <<createNodeFromLinesInChunk("Paragraph", lines, chunk)
           @@ [children |->
                 ConcatNodes([i \in 1..Len(lines) |-> inlineParseLine(lines[i])])]>>
  ELSE <<>>

ContentParagraphs(chunk, rest, lines) ==
  IF rest = <<>> \/ Head(rest).text = <<>>
  THEN flushParagraph(chunk, lines)
         \o (IF rest = <<>> THEN <<>> ELSE ContentParagraphs(chunk, Tail(rest), <<>>))
  ELSE ContentParagraphs(chunk, Tail(rest), Append(lines, Head(rest)))

parseBlockWithContent(block, type) ==
  createNodeFromChunk(block.chunk, type)
    @@ [children |-> ContentParagraphs(block.chunk, InnerLines(block.chunk), <<>>)]

\* the cells of a table line: the matches of /[^\t]+/g from index pos on
RECURSIVE TableCellsFrom(_, _)
\* the cell node of the match cellContent at startColumn; none when empty
CellNode(line, cellContent, context) ==
  IF cellContent = <<>> THEN <<>>
  ELSE <<createInlineNode("ListItem", cellContent, context)
           @@ [children |-> parseText(cellContent, context)]>>

\* the cell of the match of n characters at index with its leading "." kept
CellAtKeepingDot(line, index, n) ==
  CellNode(line, Substr(line.text, index, n), contextFromLine(line, index))

\* the cell of the match of n characters at index: a leading "." is dropped
CellAt(line, index, n) ==
  IF CharAt(line.text, index) = "."
  THEN CellNode(line, Substr(line.text, index + 1, n - 1), contextFromLine(line, index + 1))
  ELSE CellNode(line, Substr(line.text, index, n), contextFromLine(line, index))

CellsAt(line, index, n) ==
  IF n = 0 THEN <<>> ELSE CellAt(line, index, n) \o TableCellsFrom(line, index + n)

CellsFromIndex(line, index) == CellsAt(line, index, RunLenNot(line.text, index, {TAB}))

TableCellsFrom(line, pos) == CellsFromIndex(line, pos + RunLen(line.text, pos, {TAB}))

parseTableContent(line) ==
  IF LineIsComment(line) THEN <<createCommentNodeFromLine(line)>>
  ELSE IF line.text # <<>> /\ RunLen(line.text, 0, {"-"}) = Len(line.text) THEN <<>>
  ELSE TableCellsFrom(line, 0)

parseTable(block) ==
  createNodeFromChunk(block.chunk, "Table")
    @@ [children |->
          ConcatNodes([i \in 1..Len(InnerLines(block.chunk)) |->
                         parseTableContent(InnerLines(block.chunk)[i])])]

\* if (footnoteParagraph) { node.children = [footnoteParagraph] }
FootnoteNode(node, footnoteParagraph) ==
  IF footnoteParagraph # <<>> THEN node @@ [children |-> footnoteParagraph]
  ELSE node

\* block.args[1] is undefined with fewer than two arguments: reading its
\* value throws
parseFootnote(block) ==
  FootnoteNode(createNodeFromChunk(block.chunk, "Footnote"),
               IF Len(block.args) >= 2
               THEN parseBlockArg("Paragraph", block.args[2], block.chunk.lines[1])
               ELSE <<Thrown>>)

\* the lines of a code block that are no comments, joined
RECURSIVE CodeValue(_)
CodeValue(lines) ==
  IF lines = <<>> THEN <<>>
  ELSE (IF LineIsComment(Head(lines)) THEN <<>> ELSE Head(lines).raw)
         \o CodeValue(Tail(lines))

parseCodeBlock(block) ==
  createNodeFromChunk(block.chunk, "CodeBlock")
    @@ [value |-> CodeValue(InnerLines(block.chunk))]

parseImage(block) == createNodeFromChunk(block.chunk, "Image")

parseQuote(block) == parseBlockWithContent(block, "BlockQuote")

parseLead(block) == parseBlockWithContent(block, "Block")

parseShortColumn(block) == parseBlockWithContent(block, "Block")

\* the wrapper withCaption(captionIndex, blockParser) applied to the node
\* blockParser(block) has returned
\* node.children.unshift(caption), children created when absent
UnshiftCaption(node, caption) ==
  IF caption = <<>> THEN node
  ELSE IF "children" \in DOMAIN node
       THEN [node EXCEPT !.children = caption \o @]
  ELSE node @@ [children |-> caption]

withCaption(captionIndex, node, block) ==
  IF captionIndex >= 0 /\ Len(block.args) > captionIndex
  THEN UnshiftCaption(node, parseBlockArg("Caption", block.args[captionIndex + 1],
                                          block.chunk.lines[1]))
  ELSE node

CodeBlockNames ==
  {<<"l", "i", "s", "t">>,
   <<"l", "i", "s", "t", "n", "u", "m">>,
   <<"e", "m", "l", "i", "s", "t">>,
   <<"e", "m", "l", "i", "s", "t", "n", "u", "m">>,
   <<"s", "o", "u", "r", "c", "e">>,
   <<"c", "m", "d">>}

ImageNames ==
  {<<"i", "m", "a", "g", "e">>,
   <<"i", "n", "d", "e", "p", "i", "m", "a", "g", "e">>,
   <<"n", "u", "m", "b", "e", "r", "l", "e", "s", "s", "i", "m", "a", "g", "e">>,
   <<"g", "r", "a", "p", "h">>,
   <<"i", "m", "g", "t", "a", "b", "l", "e">>}

LeadNames == {<<"l", "e", "a", "d">>, <<"r", "e", "a", "d">>}

ShortColumnNames ==
  {<<"n", "o", "t", "e">>,
   <<"m", "e", "m", "o">>,
   <<"t", "i", "p">>,
   <<"i", "n", "f", "o">>,
   <<"w", "a", "r", "n", "i", "n", "g">>,
   <<"i", "m", "p", "o", "r", "t", "a", "n", "t">>,
   <<"c", "a", "u", "t", "i", "o", "n">>,
   <<"n", "o", "t", "i", "c", "e">>}

TableName == <<"t", "a", "b", "l", "e">>

FootnoteName == <<"f", "o", "o", "t", "n", "o", "t", "e">>

QuoteName == <<"q", "u", "o", "t", "e">>

\* the keys of BlockParsers
BlockParserNames ==
  CodeBlockNames \cup ImageNames \cup LeadNames \cup ShortColumnNames
    \cup {TableName, FootnoteName, QuoteName}

\* every caption taken from the second argument
CaptionIndexAlwaysOne(name) == 1

\* the captionIndex of the entries of BlockParsers built by withCaption; -1: none
CaptionIndex(name) ==
  CASE name \in {<<"e", "m", "l", "i", "s", "t">>, <<"e", "m", "l", "i", "s", "t", "n", "u", "m">>} -> 0
    [] name \in ShortColumnNames -> 0
    [] name = <<"g", "r", "a", "p", "h">> -> 2
    [] name \in {<<"s", "o", "u", "r", "c", "e">>, <<"c", "m", "d">>} -> -1
    [] name \in {FootnoteName, QuoteName} \cup LeadNames -> -1
    [] OTHER -> 1

\* blockParser(block) for the parser the entry of BlockParsers wraps
BlockNode(block) ==
  CASE block.name = TableName -> parseTable(block)
    [] block.name = FootnoteName -> parseFootnote(block)
    [] block.name = QuoteName -> parseQuote(block)
    [] block.name \in CodeBlockNames -> parseCodeBlock(block)
    [] block.name \in ImageNames -> parseImage(block)
    [] block.name \in LeadNames -> parseLead(block)
    [] block.name \in ShortColumnNames -> parseShortColumn(block)

\* line.text.match(/^\/\/(\w+)(.*)\{?$/) and the Block built from it
\* the Block object: match[1] is the name, match[2] the arguments, which
\* start at column 2 + match[1].length
BlockOf(chunk, text, nameLen) ==
  [name |-> Substr(text, 2, nameLen),
   args |-> parseBlockArgs(SubstrFrom(text, 2 + nameLen), 2 + nameLen),
   chunk |-> chunk]

\* parser(block) for parser = BlockParsers[block.name]; null without a parser
BlockParser(block) ==
  IF block.name \in BlockParserNames
  THEN <<withCaption(CaptionIndex(block.name), BlockNode(block), block)>>
  ELSE IF block.name \in InheritedNames THEN <<InheritedParser(block)>>
  ELSE <<>>

parseBlock(chunk) ==
  BlockParser(BlockOf(chunk, chunk.lines[1].text,
                      RunLen(chunk.lines[1].text, 2, WordChars)))

\* parser(chunk) for parser = ChunkParsers[chunk.type]
ChunkParser(chunk) ==
  CASE chunk.type = "Paragraph" -> parseParagraph(chunk)
    [] chunk.type = "Heading" -> parseHeading(chunk)
    [] chunk.type \in {"UnorderedList", "OrderedList", "DefinitionList"} -> parseList(chunk)
    [] chunk.type = "Block" -> parseBlock(chunk)


(***************************************************************************)
(* parse: the document is split into lines, the lines are folded into      *)
(* chunks, each chunk is turned into a node, the Document is built and the *)
(* tree is walked.                                                         *)
(***************************************************************************)
\* the nodes of a tree in the order traverse() enters them
RECURSIVE Preorder(_)
Preorder(node) ==
  <<node>> \o
    (IF "children" \in DOMAIN node
     THEN ConcatNodes([i \in 1..Len(node.children) |-> Preorder(node.children[i])])
     ELSE <<>>)

\* a call below this node has thrown
HasThrown(node) == \E i \in 1..Len(Preorder(node)) : Preorder(node)[i].type = "throw"

\* a check that passes every node
RawMatchesSliceUnchecked(node, documentText) == TRUE

\* assert.deepEqual(node.raw, text.slice(node.range[0], node.range[1])) passes;
\* reading range[0] of a node without a range throws
RawMatchesSlice(node, documentText) ==
  /\ "range" \in DOMAIN node
  /\ node.raw = Slice(documentText, node.range[1], node.range[2])

\* the check enter(node) makes
EnterCheck(node, documentText) ==
  node.type # "Document" => RawMatchesSlice(node, documentText)

\* the Document node of parseDocument
DocumentNode(documentText, chunkList, children) ==
  LET lastChunk == chunkList[Len(chunkList)]
      lastLine == lastChunk.lines[Len(lastChunk.lines)]
  IN  [type |-> "Document",
       raw |-> documentText,
       range |-> <<0, Len(documentText)>>,
       loc |-> [start |-> [line |-> 1, column |-> 0],
                end |-> [line |-> lastLine.lineNumber, column |-> Len(lastLine.text)]],
       children |-> children]

(***************************************************************************)
(* The documents the model parses: up to MaxLines lines drawn from a set   *)
(* of line texts, each ended by the line ending eol; the last line may     *)
(* lack its line ending.                                                   *)
(***************************************************************************)
MaxLines == 3

MaxCommentLines == 4

MaxTokens == 4

RECURSIVE DocOf(_, _, _)
DocOf(ls, eol, final) ==
  IF ls = <<>> THEN <<>>
  ELSE IF Len(ls) = 1 THEN ls[1] \o (IF final THEN eol ELSE <<>>)
  ELSE ls[1] \o eol \o DocOf(Tail(ls), eol, final)

Docs(lineTexts, n, eols) ==
  {DocOf(ls, eol, final) :
     ls \in UNION {[1..k -> lineTexts] : k \in 0..n}, eol \in eols, final \in BOOLEAN}

TextLine == <<"a">>
BlankLine == <<>>
CommentLineText == <<"#", "@", "#", "c">>
ListOpenLine == <<"/", "/", "l", "i", "s", "t", "[", "i", "]", "[", "c", "]", "{">>
BlockCloseLine == <<"/", "/", "}">>
HeadingLineText == <<"=", " ", "H">>
RubyLine == <<"@", "<", "r", "u", "b", "y", ">", "{", "a", ",", "b", "}">>
FootnoteLine == <<"/", "/", "f", "o", "o", "t", "n", "o", "t", "e", "[", "f", "]", "[", "@", "<", "b", ">", "{", "x", "}", "]">>
LoneCrLine == <<"a", CR, "b">>

LineTexts ==
  {TextLine, BlankLine, CommentLineText, ListOpenLine, BlockCloseLine,
   HeadingLineText, RubyLine, FootnoteLine, LoneCrLine}

\* the line texts of the documents that exercise comment lines
CommentLineTexts ==
  {TextLine, BlankLine, CommentLineText, ListOpenLine, BlockCloseLine}

LineEndings == {<<LF>>, <<CR, LF>>}

(***************************************************************************)
(* The documents with a block: lines before, the line that opens the      *)
(* block, up to MaxBodyLines body lines, the closing line, lines after.    *)
(***************************************************************************)
MaxBodyLines == 4

QuoteOpenLine == <<"/", "/", "q", "u", "o", "t", "e", "{">>
ReadOpenLine == <<"/", "/", "r", "e", "a", "d", "{">>
NoteOpenLine == <<"/", "/", "n", "o", "t", "e", "[", "c", "]", "{">>
UnknownOpenLine == <<"/", "/", "f", "o", "o", "{">>
UnknownOneLine == <<"/", "/", "f", "o", "o", "[", "x", "]">>
InheritedOneLine == <<"/", "/", "c", "o", "n", "s", "t", "r", "u", "c", "t", "o", "r">>
TableOpenLine == <<"/", "/", "t", "a", "b", "l", "e", "[", "t", "]", "[", "c", "]", "{">>
TableNoCaptionLine == <<"/", "/", "t", "a", "b", "l", "e", "[", "t", "]", "{">>
CellsLine == <<"a", TAB, "b">>
DotCellsLine == <<".", "a", TAB, ".">>
DashLine == <<"-", "-">>
TabbedCellLine == <<TAB, TAB, "a">>
ListNoCaptionLine == <<"/", "/", "l", "i", "s", "t", "[", "i", "]", "{">>
ListEmptyCaptionLine == <<"/", "/", "l", "i", "s", "t", "[", "i", "]", "[", "]", "{">>
ListnumOpenLine == <<"/", "/", "l", "i", "s", "t", "n", "u", "m", "[", "i", "]", "[", "c", "]", "{">>
EmlistOpenLine == <<"/", "/", "e", "m", "l", "i", "s", "t", "[", "c", "]", "{">>
EmlistEmptyCaptionLine == <<"/", "/", "e", "m", "l", "i", "s", "t", "[", "]", "{">>
EmlistNoCaptionLine == <<"/", "/", "e", "m", "l", "i", "s", "t", "{">>
EmlistnumOpenLine == <<"/", "/", "e", "m", "l", "i", "s", "t", "n", "u", "m", "[", "c", "]", "{">>
ImageOpenLine == <<"/", "/", "i", "m", "a", "g", "e", "[", "i", "]", "[", "c", "]", "{">>
ImageOneLine == <<"/", "/", "i", "m", "a", "g", "e", "[", "i", "]", "[", "c", "]">>
ImageNoCaptionLine == <<"/", "/", "i", "m", "a", "g", "e", "[", "i", "]">>
EscapedBracketLine == <<"/", "/", "f", "o", "o", "t", "n", "o", "t", "e", "[", "f", "]", "[", "a", BS, "]", "]">>
EscapedBracketFirstLine == <<"/", "/", "f", "o", "o", "t", "n", "o", "t", "e", "[", "f", "]", "[", BS, "]", "a", "]">>
PlainFootnoteLine == <<"/", "/", "f", "o", "o", "t", "n", "o", "t", "e", "[", "f", "]", "[", "a", "]">>

\* the sequences of at most n lines drawn from lineTexts
LineSeqs(lineTexts, n) == UNION {[1..k -> lineTexts] : k \in 0..n}

BlockDocsOf(pres, openers, bodies, closers, posts) ==
  {DocOf(pre \o <<opener>> \o body \o closer \o post, <<LF>>, final) :
     pre \in pres, opener \in openers, body \in bodies, closer \in closers,
     post \in posts, final \in BOOLEAN}

\* nothing, or one line of text
Around == {<<>>, <<TextLine>>}

ContentOpeners == {QuoteOpenLine, ReadOpenLine, NoteOpenLine, UnknownOpenLine}

TableBodyTexts == {CellsLine, DotCellsLine, DashLine, TabbedCellLine}

CaptionOpeners ==
  {ListOpenLine, ListNoCaptionLine, ListEmptyCaptionLine, ListnumOpenLine,
   EmlistOpenLine, EmlistEmptyCaptionLine, EmlistNoCaptionLine, EmlistnumOpenLine,
   TableOpenLine, TableNoCaptionLine, ImageOpenLine}

OneLineBlocks ==
  {UnknownOneLine, InheritedOneLine, ImageOneLine, ImageNoCaptionLine,
   EscapedBracketLine, EscapedBracketFirstLine, PlainFootnoteLine}

BlockDocs ==
  BlockDocsOf(Around, ContentOpeners, LineSeqs({TextLine, BlankLine}, MaxBodyLines),
              {<<BlockCloseLine>>}, Around)
    \cup BlockDocsOf({<<>>}, {TableOpenLine}, LineSeqs(TableBodyTexts, MaxBodyLines),
                     {<<BlockCloseLine>>}, {<<>>})
    \cup BlockDocsOf({<<>>}, CaptionOpeners, LineSeqs({TextLine}, MaxBodyLines),
                     {<<BlockCloseLine>>}, {<<>>})
    \cup BlockDocsOf(Around, OneLineBlocks, {<<>>}, {<<>>}, Around)

(***************************************************************************)
(* The documents with lists and headings: up to MaxListLines lines.        *)
(***************************************************************************)
MaxListLines == 3

DefinitionTermLine == <<" ", ":", " ", "t">>
ContinuationLine == <<" ", " ", "d">>
UnorderedItemLine == <<" ", "*", " ", "x">>
OrderedItemLine == <<" ", "1", ".", " ", "y">>
TrailingCloseLine == <<"/", "/", "}", "x">>
TaggedHeadingLine == <<"=", "{", "a", "}", " ", "a">>

ListLineTexts ==
  {TextLine, BlankLine, DefinitionTermLine, ContinuationLine, UnorderedItemLine,
   OrderedItemLine, HeadingLineText, TaggedHeadingLine, ListOpenLine, BlockCloseLine,
   TrailingCloseLine}

(***************************************************************************)
(* The texts of two calls of parse: up to MaxCallLines lines each.         *)
(***************************************************************************)
MaxCallLines == 2

CallTexts ==
  {DocOf(ls, <<LF>>, FALSE) : ls \in LineSeqs({TextLine, HeadingLineText}, MaxCallLines)}

(***************************************************************************)
(* The texts parseText is given: up to MaxTokens tokens.                   *)
(***************************************************************************)
TokenText == <<"a">>
TokenBold == <<"@", "<", "b", ">", "{">>
TokenUnknown == <<"@", "<", "f", "o", "o", ">", "{">>
TokenInherited == <<"@", "<", "c", "o", "n", "s", "t", "r", "u", "c", "t", "o", "r", ">", "{">>
TokenRuby == <<"@", "<", "r", "u", "b", "y", ">", "{">>
TokenHref == <<"@", "<", "h", "r", "e", "f", ">", "{">>
TokenComma == <<",">>
TokenClose == <<"}">>
TokenBackslash == <<BS>>
TokenEscapedClose == <<BS, "}">>
TokenLineBreak == <<LF>>

Tokens ==
  {TokenText, TokenBold, TokenUnknown, TokenInherited, TokenRuby, TokenHref, TokenComma, TokenClose,
   TokenBackslash, TokenEscapedClose, TokenLineBreak}

Texts(tokens, n) == {Join(ts) : ts \in UNION {[1..k -> tokens] : k \in 0..n}}

\* the contexts parseText is called with: that of a whole line, and that of
\* a block argument inside a later line
StartContexts ==
  {contextFromLine([startIndex |-> 0, lineNumber |-> 1], 0),
   contextNeedsUnescapeBrackets(contextFromLine([startIndex |-> 5, lineNumber |-> 2], 3))}

VARIABLES
  text,        \* the argument of parse
  pc,          \* where parse stands
  lines,       \* lines of parseAsChunks; <<>> is null
  lineIndex,   \* index of reduce: the lines folded so far
  startIndex,  \* startIndex of parseAsChunks
  chunker,     \* [result, cur]: the accumulator of reduce and currentChunk
  chunks,      \* the value parseAsChunks returns
  nodes,       \* nodes of parseDocument
  ast,         \* ast of parse
  walkIndex,   \* the nodes traverse() has entered
  prevNode,    \* prevNode of parse
  lineText,    \* the text parseText is called with
  startContext,\* the context parseText is called with
  tpc,         \* where parseText stands
  restText,    \* text of parseText: what is left to parse
  context,     \* context of parseText
  inlineNodes, \* nodes of parseText
  calls        \* the calls of parse under way, each with the locals of its call

docVars ==
  <<text, pc, lines, lineIndex, startIndex, chunker, chunks, nodes, ast,
    walkIndex, prevNode>>

textVars == <<lineText, startContext, tpc, restText, context, inlineNodes>>

callVars == <<calls>>

vars == <<docVars, textVars, callVars>>

NoNode == [type |-> "none"]

\* parse is not running
DocIdle ==
  /\ text = <<>>
  /\ pc = "idle"
  /\ lines = <<>>
  /\ lineIndex = 0
  /\ startIndex = 0
  /\ chunker = [result |-> <<>>, cur |-> 0]
  /\ chunks = <<>>
  /\ nodes = <<>>
  /\ ast = NoNode
  /\ walkIndex = 0
  /\ prevNode = NoNode

\* parseText is not running on its own
TextIdle ==
  /\ lineText = <<>>
  /\ startContext = contextFromLine([startIndex |-> 0, lineNumber |-> 1], 0)
  /\ tpc = "idle"
  /\ restText = <<>>
  /\ context = startContext
  /\ inlineNodes = <<>>

InitWith(documents) ==
  /\ text \in documents
  /\ pc = "start"
  /\ lines = <<>>
  /\ lineIndex = 0
  /\ startIndex = 0
  /\ chunker = [result |-> <<>>, cur |-> 0]
  /\ chunks = <<>>
  /\ nodes = <<>>
  /\ ast = NoNode
  /\ walkIndex = 0
  /\ prevNode = NoNode
  /\ TextIdle
  /\ calls = <<>>

Init == InitWith(Docs(LineTexts, MaxLines, LineEndings))

InitComment == InitWith(Docs(CommentLineTexts, MaxCommentLines, LineEndings))

InitBlock == InitWith(BlockDocs)

InitList == InitWith(Docs(ListLineTexts, MaxListLines, {<<LF>>}))

InitText ==
  /\ DocIdle
  /\ lineText \in Texts(Tokens, MaxTokens)
  /\ startContext \in StartContexts
  /\ tpc = "start"
  /\ restText = lineText
  /\ context = startContext
  /\ inlineNodes = <<>>
  /\ calls = <<>>

\* const lines = text.match(...); lines.reduce throws when lines is null
SplitText ==
  /\ pc = "start"
  /\ lines' = SplitLines(text)
  /\ pc' = IF SplitLines(text) = <<>> THEN "thrown" ELSE "reduce"
  /\ UNCHANGED <<text, lineIndex, startIndex, chunker, chunks, nodes, ast,
                 walkIndex, prevNode>>
  /\ UNCHANGED <<textVars, callVars>>

\* one call of the callback of lines.reduce
ReduceLine ==
  /\ pc = "reduce"
  /\ lineIndex < Len(lines)
  /\ chunker' = parseLine(chunker, MakeLine(lines[lineIndex + 1], lineIndex, startIndex))
  /\ startIndex' = startIndex + Len(lines[lineIndex + 1])
  /\ lineIndex' = lineIndex + 1
  /\ UNCHANGED <<text, pc, lines, chunks, nodes, ast, walkIndex, prevNode>>
  /\ UNCHANGED <<textVars, callVars>>

\* chunks.forEach(chunk => chunk.raw = ...); return chunks
AssignRaw ==
  /\ pc = "reduce"
  /\ lineIndex = Len(lines)
  /\ chunks' = [i \in 1..Len(chunker.result) |->
                  [chunker.result[i] EXCEPT !.raw = ChunkRaw(lines, chunker.result[i])]]
  /\ pc' = "build"
  /\ UNCHANGED <<text, lines, lineIndex, startIndex, chunker, nodes, ast,
                 walkIndex, prevNode>>
  /\ UNCHANGED <<textVars, callVars>>

\* one call of the callback of chunks.forEach in parseDocument
ParseChunk ==
  /\ pc = "build"
  /\ Len(nodes) < Len(chunks)
  /\ \E node \in {ChunkParser(chunks[Len(nodes) + 1])} :
       /\ nodes' = Append(nodes, node)
       /\ pc' = IF node # <<>> /\ HasThrown(node[1]) THEN "thrown" ELSE "build"
  /\ UNCHANGED <<text, lines, lineIndex, startIndex, chunker, chunks, ast,
                 walkIndex, prevNode>>
  /\ UNCHANGED <<textVars, callVars>>

\* the children of the Document: the nodes that are not null
NonNull(nodeLists) == ConcatNodes(nodeLists)

\* a parseDocument that returns a Document without children when there is
\* no chunk
BuildDocumentWithoutChunks ==
  /\ pc = "build"
  /\ Len(nodes) = Len(chunks)
  /\ ast' = IF chunks = <<>>
            THEN [type |-> "Document", raw |-> text, range |-> <<0, Len(text)>>,
                  loc |-> [start |-> [line |-> 1, column |-> 0],
                           end |-> [line |-> 1, column |-> 0]],
                  children |-> <<>>]
            ELSE DocumentNode(text, chunks, NonNull(nodes))
  /\ prevNode' = ast'
  /\ pc' = "walk"
  /\ UNCHANGED <<text, lines, lineIndex, startIndex, chunker, chunks, nodes,
                 walkIndex>>
  /\ UNCHANGED <<textVars, callVars>>

\* the rest of parseDocument: chunks[chunks.length - 1].lines throws when
\* there is no chunk
BuildDocument ==
  /\ pc = "build"
  /\ Len(nodes) = Len(chunks)
  /\ IF chunks = <<>>
     THEN pc' = "thrown" /\ UNCHANGED <<ast, prevNode>>
     ELSE /\ ast' = DocumentNode(text, chunks, NonNull(nodes))
          /\ prevNode' = ast'
          /\ pc' = "walk"
  /\ UNCHANGED <<text, lines, lineIndex, startIndex, chunker, chunks, nodes,
                 walkIndex>>
  /\ UNCHANGED <<textVars, callVars>>

\* an enter(node) that strips the line ending of the raw of the Document
EnterNodeNormalising ==
  /\ pc = "walk"
  /\ walkIndex < Len(Preorder(ast))
  /\ IF EnterCheck(Preorder(ast)[walkIndex + 1], text)
     THEN /\ prevNode' = Preorder(ast)[walkIndex + 1]
          /\ walkIndex' = walkIndex + 1
          /\ pc' = "walk"
     ELSE pc' = "thrown" /\ UNCHANGED <<prevNode, walkIndex>>
  /\ ast' = [ast EXCEPT !.raw = StripLineEnding(@)]
  /\ UNCHANGED <<text, lines, lineIndex, startIndex, chunker, chunks, nodes>>
  /\ UNCHANGED <<textVars, callVars>>

\* enter(node) of the traversal
EnterNode ==
  /\ pc = "walk"
  /\ walkIndex < Len(Preorder(ast))
  /\ IF EnterCheck(Preorder(ast)[walkIndex + 1], text)
     THEN /\ prevNode' = Preorder(ast)[walkIndex + 1]
          /\ walkIndex' = walkIndex + 1
          /\ pc' = "walk"
     ELSE pc' = "thrown" /\ UNCHANGED <<prevNode, walkIndex>>
  /\ UNCHANGED <<text, lines, lineIndex, startIndex, chunker, chunks, nodes, ast>>
  /\ UNCHANGED <<textVars, callVars>>

\* return ast
Return ==
  /\ pc = "walk"
  /\ walkIndex = Len(Preorder(ast))
  /\ pc' = "done"
  /\ UNCHANGED <<text, lines, lineIndex, startIndex, chunker, chunks, nodes, ast,
                 walkIndex, prevNode>>
  /\ UNCHANGED <<textVars, callVars>>

Next ==
  \/ SplitText
  \/ ReduceLine
  \/ AssignRaw
  \/ ParseChunk
  \/ BuildDocument
  \/ EnterNode
  \/ Return

Spec == Init /\ [][Next]_vars

SpecComment == InitComment /\ [][Next]_vars

SpecBlock == InitBlock /\ [][Next]_vars

SpecList == InitList /\ [][Next]_vars

\* assert(!text.match(/[\r\n]/))
TextAssert ==
  /\ tpc = "start"
  /\ tpc' = IF HasLineBreak(lineText) THEN "thrown" ELSE "loop"
  /\ UNCHANGED <<lineText, startContext, restText, context, inlineNodes>>
  /\ UNCHANGED <<docVars, callVars>>

\* one pass of while (tag = findInlineTag(text)); a parser that throws
\* ends parseText
TextPass ==
  /\ tpc = "loop"
  /\ findInlineTag(restText).found
  /\ \E tag \in {findInlineTag(restText)} :
       /\ inlineNodes' = inlineNodes \o PassNodes(tag, context)
       /\ context' = PassContext(tag, context)
       /\ restText' = tag.followingText
  /\ tpc' = IF \E i \in 1..Len(inlineNodes') : HasThrown(inlineNodes'[i])
            THEN "thrown" ELSE "loop"
  /\ UNCHANGED <<lineText, startContext>>
  /\ UNCHANGED <<docVars, callVars>>

\* the loop is left: the final Str is pushed and nodes returned
TextReturn ==
  /\ tpc = "loop"
  /\ ~findInlineTag(restText).found
  /\ inlineNodes' = inlineNodes \o FinalNodes(restText, context)
  /\ tpc' = "done"
  /\ UNCHANGED <<lineText, startContext, restText, context>>
  /\ UNCHANGED <<docVars, callVars>>

(***************************************************************************)
(* Two calls of parse. The variables of parse, parseDocument and           *)
(* parseAsChunks are locals: each call has its own, held in its record of  *)
(* calls; a step of a call runs the same code as the actions above.        *)
(***************************************************************************)
\* the locals of a call of parse(t) when it starts
InitCall(t) ==
  [text |-> t, pc |-> "start", lines |-> <<>>, lineIndex |-> 0, startIndex |-> 0,
   chunker |-> [result |-> <<>>, cur |-> 0], chunks |-> <<>>, nodes |-> <<>>,
   ast |-> NoNode, walkIndex |-> 0, prevNode |-> NoNode]

\* one startIndex that every call reads: that of the first call
startIndexShared(cs, i) == cs[1].startIndex

\* var startIndex = 0 inside parseAsChunks: the startIndex of call i
startIndexOf(cs, i) == cs[i].startIndex

\* the locals of call i after its next step
CallStep(cs, i) ==
  LET s == cs[i]
  IN  CASE s.pc = "start" ->
             [s EXCEPT !.lines = SplitLines(s.text),
                       !.pc = IF SplitLines(s.text) = <<>> THEN "thrown" ELSE "reduce"]
        [] s.pc = "reduce" /\ s.lineIndex < Len(s.lines) ->
             [s EXCEPT !.chunker = parseLine(@, MakeLine(s.lines[s.lineIndex + 1], s.lineIndex,
                                                         startIndexOf(cs, i))),
                       !.startIndex = startIndexOf(cs, i) + Len(s.lines[s.lineIndex + 1]),
                       !.lineIndex = @ + 1]
        [] s.pc = "reduce" /\ s.lineIndex = Len(s.lines) ->
             [s EXCEPT !.chunks = [k \in 1..Len(s.chunker.result) |->
                                     [s.chunker.result[k] EXCEPT
                                        !.raw = ChunkRaw(s.lines, s.chunker.result[k])]],
                       !.pc = "build"]
        [] s.pc = "build" /\ Len(s.nodes) < Len(s.chunks) ->
             [s EXCEPT !.nodes = Append(@, ChunkParser(s.chunks[Len(s.nodes) + 1])),
                       !.pc = IF ChunkParser(s.chunks[Len(s.nodes) + 1]) # <<>>
                                   /\ HasThrown(ChunkParser(s.chunks[Len(s.nodes) + 1])[1])
                              THEN "thrown" ELSE "build"]
        [] s.pc = "build" /\ Len(s.nodes) = Len(s.chunks) ->
             IF s.chunks = <<>> THEN [s EXCEPT !.pc = "thrown"]
             ELSE [s EXCEPT !.ast = DocumentNode(s.text, s.chunks, NonNull(s.nodes)),
                            !.prevNode = DocumentNode(s.text, s.chunks, NonNull(s.nodes)),
                            !.pc = "walk"]
        [] s.pc = "walk" /\ s.walkIndex < Len(Preorder(s.ast)) ->
             IF EnterCheck(Preorder(s.ast)[s.walkIndex + 1], s.text)
             THEN [s EXCEPT !.prevNode = Preorder(s.ast)[s.walkIndex + 1],
                            !.walkIndex = @ + 1]
             ELSE [s EXCEPT !.pc = "thrown"]
        [] s.pc = "walk" /\ s.walkIndex = Len(Preorder(s.ast)) ->
             [s EXCEPT !.pc = "done"]

InitTwo ==
  /\ DocIdle
  /\ TextIdle
  /\ calls \in {<<InitCall(t1), InitCall(t2)>> : t1 \in CallTexts, t2 \in CallTexts}

\* a call that has neither returned nor thrown takes its next step
NextTwo ==
  \E i \in DOMAIN calls :
    /\ calls[i].pc \notin {"done", "thrown"}
    /\ calls' = [calls EXCEPT ![i] = CallStep(calls, i)]
    /\ UNCHANGED <<docVars, textVars>>

SpecTwo == InitTwo /\ [][NextTwo]_vars

NextText ==
  \/ TextAssert
  \/ TextPass
  \/ TextReturn

SpecText == InitText /\ [][NextText]_vars

\* the tokens that decide how long parseText runs: text, openers, closing
\* braces, backslashes and the line break on which it raises
ScanTokens ==
  {TokenText, TokenBold, TokenRuby, TokenClose, TokenBackslash, TokenEscapedClose,
   TokenLineBreak}

InitScan ==
  /\ DocIdle
  /\ lineText \in Texts(ScanTokens, MaxTokens)
  /\ startContext \in StartContexts
  /\ tpc = "start"
  /\ restText = lineText
  /\ context = startContext
  /\ inlineNodes = <<>>
  /\ calls = <<>>

\* parseText runs to its end once called: its loop is synchronous code, so
\* a step that can be taken is taken
SpecTextFair == InitScan /\ [][NextText]_vars /\ WF_vars(NextText)

(***************************************************************************)
(* Properties of parse and parseAsChunks.                                  *)
(***************************************************************************)
\* parseAsChunks has returned its chunks
ChunksReturned == pc \in {"build", "walk", "done"}

\* the text of the n-th line, without its line ending
LineTextAt(n) == StripLineEnding(lines[n])

\* the index in the input text at which the n-th line starts
RECURSIVE LineStartAt(_)
LineStartAt(n) == IF n <= 1 THEN 0 ELSE LineStartAt(n - 1) + Len(lines[n - 1])

FirstLineNumber(chunk) == chunk.lines[1].lineNumber

LastLineNumber(chunk) == chunk.lines[Len(chunk.lines)].lineNumber

\* the n-th line is one of the lines of the chunk
HoldsLine(chunk, n) == \E k \in 1..Len(chunk.lines) : chunk.lines[k].lineNumber = n

\* the nodes of the tree other than the Document
NonDocumentNodes(tree) ==
  {Preorder(tree)[i] : i \in {j \in 1..Len(Preorder(tree)) : Preorder(tree)[j].type # "Document"}}

\* the node's raw is the slice of the input text its range designates
RawIsSlice(node) == node.raw = Slice(text, node.range[1], node.range[2])

\* C1: every node other than the Document of a tree parse returns has
\* raw = text.slice(range[0], range[1]); when the walk over the built tree
\* raises, the node it stands at is a non-Document node that fails this and
\* every node entered before passes it.
C1_RawEqualsSliceOrRaise ==
  /\ pc = "done" => \A node \in NonDocumentNodes(ast) : RawIsSlice(node)
  /\ (pc = "thrown" /\ ast # NoNode) =>
       /\ Preorder(ast)[walkIndex + 1].type # "Document"
       /\ ~RawIsSlice(Preorder(ast)[walkIndex + 1])
       /\ \A i \in 1..walkIndex :
            Preorder(ast)[i].type # "Document" => RawIsSlice(Preorder(ast)[i])

\* C1 witness: a tree with inline children is returned
C1_Witness ==
  /\ pc = "done"
  /\ Len(ast.children) >= 2
  /\ \E node \in NonDocumentNodes(ast) : node.type = "Strong"

\* C2 as claimed: parse returns no tree when a block is opened and never
\* closed, that is when the block is still the current chunk at the end of
\* the input.
C2_UnterminatedBlockRaises ==
  pc = "done" => ~CurrentIs(chunker, "Block")

\* the raws of the chunks, concatenated in order
RECURSIVE JoinRaws(_)
JoinRaws(chunkList) ==
  IF chunkList = <<>> THEN <<>> ELSE Head(chunkList).raw \o JoinRaws(Tail(chunkList))

\* every carriage return of the text is followed by a line feed
NoLoneCR(t) == \A i \in 1..Len(t) : t[i] = CR => (i < Len(t) /\ t[i + 1] = LF)

OrdinaryText(t) ==
  /\ t # <<>>
  /\ ~IsCommentLine(t)
  /\ ~IsBlockOpen(t)
  /\ ~IsHeadingLine(t)
  /\ UnorderedPrefixLen(t) = 0
  /\ OrderedPrefixLen(t) = 0
  /\ DefinitionPrefixLen(t) = 0

\* the lines strictly between p and q are comment lines, at least one
CommentsBetween(p, q) ==
  /\ p + 1 < q
  /\ \A n \in (p + 1)..(q - 1) : IsCommentLine(LineTextAt(n))

\* the child of the Document built from the chunk that holds line n
ParagraphNodesAt(n) ==
  {ast.children[i] : i \in {j \in 1..Len(ast.children) :
                             /\ ast.children[j].type = "Paragraph"
                             /\ ast.children[j].loc.start.line <= n
                             /\ ast.children[j].loc.end.line >= n}}

\* C5: when line p is a line of a Paragraph chunk, line q is ordinary text
\* and only comment lines lie between them, p and q are lines of the same
\* Paragraph chunk; the tree parse returns holds one Paragraph node whose
\* range runs from the start of the chunk's first line to the end of q or
\* beyond, and each Str child of it carries the line number and the column
\* of the place its range designates.
C5_CommentKeepsParagraphOpen ==
  ChunksReturned =>
    \A p \in 1..Len(lines), q \in 1..Len(lines), i \in 1..Len(chunks) :
      (/\ CommentsBetween(p, q)
       /\ chunks[i].type = "Paragraph"
       /\ HoldsLine(chunks[i], p)
       /\ OrdinaryText(LineTextAt(q)))
      => /\ HoldsLine(chunks[i], q)
         /\ pc = "done" =>
              /\ Cardinality(ParagraphNodesAt(p)) = 1
              /\ ParagraphNodesAt(q) = ParagraphNodesAt(p)
              /\ \A node \in ParagraphNodesAt(p) :
                   /\ node.range[1] = LineStartAt(FirstLineNumber(chunks[i]))
                   /\ node.range[2] >= LineStartAt(q) + Len(LineTextAt(q))
                   /\ \A k \in 1..Len(node.children) :
                        /\ node.children[k].type = "Str"
                        /\ ~IsCommentLine(LineTextAt(node.children[k].loc.start.line))
                        /\ node.children[k].range[1] =
                             LineStartAt(node.children[k].loc.start.line)
                               + node.children[k].loc.start.column
                   /\ \E k \in 1..Len(node.children) : node.children[k].loc.start.line = p
                   /\ \E k \in 1..Len(node.children) : node.children[k].loc.start.line = q

\* C5 witness: a tree whose Paragraph holds the lines 1 and 3 around the
\* comment on line 2
C5_Witness ==
  /\ pc = "done"
  /\ Len(lines) >= 3
  /\ IsCommentLine(LineTextAt(2))
  /\ \E i \in 1..Len(chunks) :
       /\ chunks[i].type = "Paragraph"
       /\ HoldsLine(chunks[i], 1)
       /\ HoldsLine(chunks[i], 3)

\* line c is a comment line between two blank lines, or right before the
\* first line of a Paragraph chunk
CommentStandsAlone(c) ==
  /\ IsCommentLine(LineTextAt(c))
  /\ c < Len(lines)
  /\ \/ (c > 1 /\ LineTextAt(c - 1) = <<>> /\ LineTextAt(c + 1) = <<>>)
     \/ \E i \in 1..Len(chunks) :
          chunks[i].type = "Paragraph" /\ FirstLineNumber(chunks[i]) = c + 1

\* line c lies between the opener and the last line of a Block chunk
InsideBlock(c) ==
  \E i \in 1..Len(chunks) :
    /\ chunks[i].type = "Block"
    /\ FirstLineNumber(chunks[i]) < c
    /\ c < LastLineNumber(chunks[i])

\* no node other than the Document has a range that meets the text of line c
OutsideEveryNode(c) ==
  \A node \in NonDocumentNodes(ast) :
    \/ node.range[2] <= LineStartAt(c)
    \/ node.range[1] >= LineStartAt(c) + Len(LineTextAt(c))

\* the paragraph that starts on the line after line c is produced
ParagraphAfterProduced(c) ==
  (\E i \in 1..Len(chunks) :
     chunks[i].type = "Paragraph" /\ FirstLineNumber(chunks[i]) = c + 1)
  => \E node \in ParagraphNodesAt(c + 1) : node.loc.start.line = c + 1

C7_CommentLinesKeptAndFlagged ==
  ChunksReturned =>
    \A i \in 1..Len(chunks) :
      /\ Len(chunks[i].lines) = LastLineNumber(chunks[i]) - FirstLineNumber(chunks[i]) + 1
      /\ \A n \in FirstLineNumber(chunks[i])..LastLineNumber(chunks[i]) :
           IsCommentLine(LineTextAt(n)) =>
             \E k \in 1..Len(chunks[i].lines) :
               /\ chunks[i].lines[k].lineNumber = n
               /\ LineIsComment(chunks[i].lines[k])

\* the text matches //<word> at its start
MatchesBlockWord(t) ==
  Len(t) >= 3 /\ t[1] = "/" /\ t[2] = "/" /\ t[3] \in WordChars

\* C8: when no block is open and the line folded matches //<word>, the step
\* adds one Block chunk that holds just this line and leaves the chunks
\* before it as they are; the new chunk is the current chunk afterwards if
\* and only if the line's text ends with "{", and otherwise there is no
\* current chunk, so the next line is classified afresh.
C8_BlockOpenDecision ==
  [][(/\ pc = "reduce"
      /\ lineIndex' = lineIndex + 1
      /\ ~CurrentIs(chunker, "Block")
      /\ MatchesBlockWord(LineTextAt(lineIndex + 1)))
     => /\ Len(chunker'.result) = Len(chunker.result) + 1
        /\ \A i \in 1..Len(chunker.result) : chunker'.result[i] = chunker.result[i]
        /\ chunker'.result[Len(chunker'.result)].type = "Block"
        /\ Len(chunker'.result[Len(chunker'.result)].lines) = 1
        /\ chunker'.result[Len(chunker'.result)].lines[1].lineNumber = lineIndex + 1
        /\ IF LineTextAt(lineIndex + 1)[Len(LineTextAt(lineIndex + 1))] = "{"
           THEN chunker'.cur = Len(chunker'.result)
           ELSE chunker'.cur = 0]_vars

\* C8 witness: a one-line block with braces in its arguments has just been
\* folded, no chunk is current and a line follows
C8_Witness ==
  /\ pc = "reduce"
  /\ lineIndex >= 1
  /\ lineIndex < Len(lines)
  /\ LineTextAt(lineIndex) = FootnoteLine
  /\ chunker.cur = 0
  /\ chunker.result[Len(chunker.result)].type = "Block"
  /\ LastLineNumber(chunker.result[Len(chunker.result)]) = lineIndex

(***************************************************************************)
(* Properties of parseText and findInlineTag.                              *)
(***************************************************************************)
\* the brace at index j of t closes a tag: no backslash stands before it
ClosesTag(t, j) == CharAt(t, j) = "}" /\ CharAt(t, j - 1) # BS

\* the index of the first closing brace of t at index from or later; -1: none
FirstClose(t, from) ==
  IF \E j \in from..(Len(t) - 1) : ClosesTag(t, j)
  THEN CHOOSE j \in from..(Len(t) - 1) :
         ClosesTag(t, j) /\ \A k \in from..(j - 1) : ~ClosesTag(t, k)
  ELSE -1

\* the index and the name length of the first opener of the text left
OpenerIndex == OpenerIndexFrom(restText, 0)

OpenerNameLen == OpenerNameLenAt(restText, OpenerIndex)

OpenerName == Substr(restText, OpenerIndex + 2, OpenerNameLen)

\* the index right after the opening brace of the first opener
ContentStart == OpenerIndex + OpenerNameLen + 4

\* what parseText pushed is a node: it has a range
IsNode(node) == "range" \in DOMAIN node

\* the ranges of the nodes follow each other from index from on: gaps allowed
RECURSIVE InOrderFrom(_, _)
InOrderFrom(nodeList, from) ==
  \/ nodeList = <<>>
  \/ /\ Head(nodeList).range[1] >= from
     /\ Head(nodeList).range[2] >= Head(nodeList).range[1]
     /\ InOrderFrom(Tail(nodeList), Head(nodeList).range[2])

\* the nodes tile the indices from..to: each starts where the one before ends
RECURSIVE TilesFrom(_, _, _)
TilesFrom(nodeList, from, to) ==
  IF nodeList = <<>> THEN from = to
  ELSE /\ Head(nodeList).range[1] = from
       /\ TilesFrom(Tail(nodeList), Head(nodeList).range[2], to)

\* the text holds the opener of a tag whose name has no parser
HasUnknownOpener(t) ==
  \E i \in 0..(Len(t) - 1) :
    /\ OpenerNameLenAt(t, i) > 0
    /\ Substr(t, i + 2, OpenerNameLenAt(t, i)) \notin InlineParserNames

\* C4 as claimed: the nodes parseText returns tile the line from the start
\* index of the context to start index + text length.
C4_NodesTileLine ==
  tpc = "done" =>
    /\ \A i \in 1..Len(inlineNodes) : IsNode(inlineNodes[i])
    /\ TilesFrom(inlineNodes, startContext.startIndex,
                 startContext.startIndex + Len(lineText))

\* C4 amended: the nodes parseText returns follow each other in order
\* without overlap inside the line; they tile the line whenever the text
\* holds no opener of a tag without a parser; and the index the next node
\* starts at is always the start index plus the length of the text consumed,
\* so that what is missing is the full text of the tags without a parser.
C4_NodesTileLineButUnknownTags ==
  /\ tpc \in {"loop", "done"} =>
       /\ InOrderFrom(SelectSeq(inlineNodes, IsNode), startContext.startIndex)
       /\ context.startIndex + Len(restText) = startContext.startIndex + Len(lineText)
       /\ \A i \in 1..Len(inlineNodes) :
            IsNode(inlineNodes[i]) =>
              inlineNodes[i].range[2] <= context.startIndex + Len(restText)
       /\ ~HasUnknownOpener(lineText) =>
            TilesFrom(inlineNodes, startContext.startIndex,
                      IF tpc = "done" THEN startContext.startIndex + Len(lineText)
                      ELSE context.startIndex)

\* C4 witness: a tag without a parser between two pieces of text leaves a gap
C4_Witness ==
  /\ tpc = "done"
  /\ Len(inlineNodes) = 2
  /\ IsNode(inlineNodes[1]) /\ IsNode(inlineNodes[2])
  /\ inlineNodes[1].range[2] < inlineNodes[2].range[1]
  /\ HasUnknownOpener(lineText)

\* C9: when the first opener of the text left names a text-wrapping tag and
\* a closing brace without a backslash before it follows, the pass pushes as
\* its last node the tag's node: its raw runs from the opener to the first
\* such brace, it has one Str child whose raw is the content between the
\* braces, whose column is the tag's column plus the length of the opener
\* and whose value is the content with each \} turned into }; the text left
\* afterwards starts right after that brace.
C9_TextTagEndsAtFirstUnescapedBrace ==
  [][(/\ tpc = "loop"
      /\ OpenerIndex >= 0
      /\ OpenerName \in TextTagNames
      /\ FirstClose(restText, ContentStart) >= 0
      /\ inlineNodes' # inlineNodes)
     => /\ inlineNodes'[Len(inlineNodes')].type = InlineTagType(OpenerName)
        /\ inlineNodes'[Len(inlineNodes')].raw =
             Slice(restText, OpenerIndex, FirstClose(restText, ContentStart) + 1)
        /\ inlineNodes'[Len(inlineNodes')].loc.start.column =
             context.startColumn + OpenerIndex
        /\ Len(inlineNodes'[Len(inlineNodes')].children) = 1
        /\ inlineNodes'[Len(inlineNodes')].children[1].type = "Str"
        /\ inlineNodes'[Len(inlineNodes')].children[1].raw =
             Slice(restText, ContentStart, FirstClose(restText, ContentStart))
        /\ inlineNodes'[Len(inlineNodes')].children[1].loc.start.column =
             context.startColumn + OpenerIndex + OpenerNameLen + 4
        /\ inlineNodes'[Len(inlineNodes')].children[1].value =
             UnescapeChar(Slice(restText, ContentStart, FirstClose(restText, ContentStart)), "}")
        /\ restText' = SubstrFrom(restText, FirstClose(restText, ContentStart) + 1)]_vars

\* C9 witness: a bold tag after a piece of text, with an escaped brace in
\* its content, has been parsed
C9_Witness ==
  /\ tpc = "loop"
  /\ Len(inlineNodes) = 2
  /\ inlineNodes[2].type = "Strong"
  /\ inlineNodes[2].loc.start.column > startContext.startColumn
  /\ inlineNodes[2].children[1].raw = <<BS, "}">>
  /\ inlineNodes[2].children[1].value = <<"}">>

\* C10: when the first opener of the text left has no closing brace without
\* a backslash before it, findInlineTag returns null, and the next step of
\* parseText pushes the text left as one Str node and returns.
C10_UnterminatedTagIsText ==
  /\ (tpc = "loop" /\ OpenerIndex >= 0 /\ FirstClose(restText, ContentStart) < 0)
       => findInlineTag(restText) = NoTag
  /\ (tpc = "done" /\ OpenerIndex >= 0 /\ FirstClose(restText, ContentStart) < 0)
       => /\ inlineNodes # <<>>
          /\ inlineNodes[Len(inlineNodes)].type = "Str"
          /\ inlineNodes[Len(inlineNodes)].raw = restText
          /\ inlineNodes[Len(inlineNodes)].range =
               <<context.startIndex, context.startIndex + Len(restText)>>
          /\ \A i \in 1..(Len(inlineNodes) - 1) :
               IsNode(inlineNodes[i]) => inlineNodes[i].range[2] <= context.startIndex

\* C10 witness: parseText has returned a complete tag followed by a Str that
\* holds an opener without its closing brace
C10_Witness ==
  /\ tpc = "done"
  /\ Len(inlineNodes) = 2
  /\ inlineNodes[1].type = "Strong"
  /\ inlineNodes[2].type = "Str"
  /\ OpenerNameLenAt(inlineNodes[2].raw, 0) > 0


(***************************************************************************)
(* Block arguments                                                         *)
(***************************************************************************)
\* the index of the first "]" at or after from that no backslash precedes
RECURSIVE UnescapedBracket(_, _)
UnescapedBracket(str, from) ==
  LET i == IndexOfChar(str, "]", from)
  IN  IF i < 0 THEN -1
      ELSE IF i > 0 /\ CharAt(str, i - 1) = BS THEN UnescapedBracket(str, i + 1)
      ELSE i

\* the bracket arguments of a line when each ends at its first unescaped "]"
RECURSIVE ArgumentsFrom(_, _)
ArgumentsFrom(str, pos) ==
  LET open == IndexOfChar(str, "[", pos)
      close == UnescapedBracket(str, open + 1)
  IN  IF open < 0 \/ close < 0 THEN <<>>
      ELSE <<[value |-> Slice(str, open + 1, close), startColumn |-> open + 1]>>
             \o ArgumentsFrom(str, close + 1)

\* the node built from argument arg keeps the argument as its raw text, and
\* a lone Str child has each \] replaced by ]
ArgumentKept(node, arg) ==
  /\ node.raw = arg.value
  /\ node.loc.start.column = arg.startColumn
  /\ (Len(node.children) = 1 /\ node.children[1].type = "Str"
        => /\ node.children[1].raw = arg.value
           /\ node.children[1].value = UnescapeChar(arg.value, "]"))

\* C11: the second argument of a footnote block ends at the first "]" that
\* no backslash precedes; the Paragraph built from it keeps \] in its raw
\* text and its Str child has \] replaced by ] in its value.
C11_ArgumentEndsAtUnescapedBracket ==
  \A i \in 1..Len(nodes) :
    (nodes[i] # <<>> /\ nodes[i][1].type = "Footnote"
       /\ Len(ArgumentsFrom(chunks[i].lines[1].text, 0)) >= 2
       /\ ArgumentsFrom(chunks[i].lines[1].text, 0)[2].value # <<>>)
      => /\ "children" \in DOMAIN nodes[i][1]
         /\ Len(nodes[i][1].children) = 1
         /\ ArgumentKept(nodes[i][1].children[1],
                         ArgumentsFrom(chunks[i].lines[1].text, 0)[2])


(***************************************************************************)
(* Blocks without a parser                                                 *)
(***************************************************************************)
\* the word after // on the first line of a chunk
BlockNameOf(chunk) ==
  Substr(chunk.lines[1].text, 2, RunLen(chunk.lines[1].text, 2, WordChars))

\* chunk is a Block whose name is no key of the table of block parsers
UnknownBlock(chunk) ==
  chunk.type = "Block" /\ BlockNameOf(chunk) \notin BlockParserNames

\* the chunks that are no unknown Block, in order
RECURSIVE KnownChunks(_)
KnownChunks(chunkList) ==
  IF chunkList = <<>> THEN <<>>
  ELSE (IF UnknownBlock(Head(chunkList)) THEN <<>> ELSE <<Head(chunkList)>>)
         \o KnownChunks(Tail(chunkList))

\* the Document has one child per chunk that is no unknown Block, in order,
\* each starting where its chunk starts
ChildrenAreKnownChunks ==
  /\ Len(ast.children) = Len(KnownChunks(chunks))
  /\ \A k \in 1..Len(ast.children) :
       /\ "range" \in DOMAIN ast.children[k]
       /\ ast.children[k].range[1] = KnownChunks(chunks)[k].lines[1].startIndex

\* C12: a Block chunk whose name is not in the table of block parsers adds
\* no node and raises nothing: its entry of nodes is null, the Document's
\* children are the nodes of the other chunks, and a document of paragraphs
\* and such blocks is parsed to the end.
C12_UnknownBlockAddsNoNode ==
  /\ \A i \in 1..Len(nodes) : UnknownBlock(chunks[i]) => nodes[i] = <<>>
  /\ pc \in {"walk", "done"} => ChildrenAreKnownChunks
  /\ (pc = "thrown" /\ chunks # <<>>)
       => \E i \in 1..Len(chunks) :
            ~UnknownBlock(chunks[i]) /\ chunks[i].type # "Paragraph"


(***************************************************************************)
(* Definition lists                                                        *)
(***************************************************************************)
\* the step folds line n while a DefinitionList chunk is open
FoldsIntoDefinitionList ==
  /\ pc = "reduce"
  /\ lineIndex' = lineIndex + 1
  /\ CurrentIs(chunker, "DefinitionList")

StartsWithSpace(t) == t # <<>> /\ t[1] \in SpaceChars

\* the line is an item line of an unordered or an ordered list
IsListItemLine(t) == UnorderedPrefixLen(t) > 0 \/ OrderedPrefixLen(t) > 0

\* the step appends line n to the current chunk and changes nothing else
AppendsToCurrent(n) ==
  /\ chunker'.cur = chunker.cur
  /\ Len(chunker'.result) = Len(chunker.result)
  /\ \A i \in 1..Len(chunker.result) :
       i # chunker.cur => chunker'.result[i] = chunker.result[i]
  /\ Len(chunker'.result[chunker.cur].lines) = Len(chunker.result[chunker.cur].lines) + 1
  /\ SubSeq(chunker'.result[chunker.cur].lines, 1, Len(chunker.result[chunker.cur].lines))
       = chunker.result[chunker.cur].lines
  /\ LastLineNumber(chunker'.result[chunker.cur]) = n

\* the column of the first character after the indent and, on a term line,
\* after the colon and the spaces that follow it
TextColumn(t) ==
  IF CharAt(t, RunLen(t, 0, SpaceChars)) = ":"
       /\ RunLen(t, RunLen(t, 0, SpaceChars) + 1, SpaceChars) > 0
  THEN RunLen(t, 0, SpaceChars) + 1 + RunLen(t, RunLen(t, 0, SpaceChars) + 1, SpaceChars)
  ELSE RunLen(t, 0, SpaceChars)

\* the node of a DefinitionList chunk is a List with one ListItem per line of
\* the chunk, in order, whose raw is the line and whose first child starts
\* after the stripped prefix
OneItemPerLine(node, chunk) ==
  /\ node.type = "List"
  /\ Len(node.children) = Len(chunk.lines)
  /\ \A k \in 1..Len(chunk.lines) :
       /\ node.children[k].type = "ListItem"
       /\ node.children[k].raw = chunk.lines[k].text
       /\ node.children[k].loc.start.line = chunk.lines[k].lineNumber
       /\ node.children[k].loc.start.column = 0
       /\ node.children[k].children # <<>>
            => node.children[k].children[1].loc.start.column
                 = TextColumn(chunk.lines[k].text)

DefinitionListItems ==
  \A i \in 1..Len(nodes) :
    chunks[i].type = "DefinitionList"
      => nodes[i] # <<>> /\ OneItemPerLine(nodes[i][1], chunks[i])

ContentBlockNames == {QuoteName} \cup LeadNames \cup ShortColumnNames

\* the maximal runs of non-empty lines of ls from its k-th line on, as pairs
\* of indices; open is the index at which the run under way began, 0 for none
RECURSIVE RunsFrom(_, _, _)
RunsFrom(ls, k, open) ==
  IF k > Len(ls) THEN (IF open > 0 THEN <<<<open, Len(ls)>>>> ELSE <<>>)
  ELSE IF ls[k].text = <<>>
       THEN (IF open > 0 THEN <<<<open, k - 1>>>> ELSE <<>>) \o RunsFrom(ls, k + 1, 0)
  ELSE RunsFrom(ls, k + 1, IF open > 0 THEN open ELSE k)

\* the children of the node that are Paragraphs, in order
RECURSIVE ParagraphsOf(_)
ParagraphsOf(children) ==
  IF children = <<>> THEN <<>>
  ELSE (IF Head(children).type = "Paragraph" THEN <<Head(children)>> ELSE <<>>)
         \o ParagraphsOf(Tail(children))

\* the paragraph spans the lines from first to last
SpansLines(paragraph, first, last) ==
  /\ paragraph.loc.start = [line |-> first.lineNumber, column |-> 0]
  /\ paragraph.loc.end = [line |-> last.lineNumber, column |-> Len(last.text)]
  /\ paragraph.range = <<first.startIndex, last.startIndex + Len(last.text)>>

\* the Paragraphs of the node are the runs of the lines between the first
\* and the last line of the chunk
ParagraphPerRun(node, chunk) ==
  /\ Len(ParagraphsOf(node.children))
       = Len(RunsFrom(SubSeq(chunk.lines, 2, Len(chunk.lines) - 1), 1, 0))
  /\ \A k \in 1..Len(ParagraphsOf(node.children)) :
       SpansLines(ParagraphsOf(node.children)[k],
                  chunk.lines[1 + RunsFrom(SubSeq(chunk.lines, 2, Len(chunk.lines) - 1), 1, 0)[k][1]],
                  chunk.lines[1 + RunsFrom(SubSeq(chunk.lines, 2, Len(chunk.lines) - 1), 1, 0)[k][2]])
  /\ \A k \in 1..Len(node.children) :
       node.children[k].type \in {"Paragraph", "Caption"}

\* the chunk is a block with content that its closing line ends
ClosedContentBlock(chunk) ==
  /\ chunk.type = "Block"
  /\ BlockNameOf(chunk) \in ContentBlockNames
  /\ Len(chunk.lines) >= 2
  /\ chunk.lines[Len(chunk.lines)].text = BlockCloseLine

\* C14: the node of a quote, lead, read or short-column block has one
\* Paragraph child per maximal run of non-empty lines between its opening and
\* its closing line, none for blank lines, each Paragraph ranging from column
\* 0 of the first line of its run to the end of the text of the last.
C14_ParagraphPerRunOfBodyLines ==
  \A i \in 1..Len(nodes) :
    ClosedContentBlock(chunks[i])
      => nodes[i] # <<>> /\ ParagraphPerRun(nodes[i][1], chunks[i])

\* C14 witness: a quote of two one-line paragraphs that two blank lines
\* separate has been parsed
C14_Witness ==
  /\ pc = "done"
  /\ Len(chunks) = 1
  /\ ClosedContentBlock(chunks[1])
  /\ Len(chunks[1].lines) = 6
  /\ chunks[1].lines[2].text = TextLine
  /\ chunks[1].lines[3].text = BlankLine
  /\ chunks[1].lines[4].text = BlankLine
  /\ chunks[1].lines[5].text = TextLine
  /\ Len(ast.children[1].children) = 2


(***************************************************************************)
(* Tables                                                                  *)
(***************************************************************************)
\* the cell of the run of n non-tab characters of the line at column: none
\* when a lone "." is all there is
ExpectedCell(line, column, n) ==
  IF CharAt(line.text, column) # "."
  THEN <<[raw |-> Slice(line.text, column, column + n), column |-> column,
          line |-> line.lineNumber]>>
  ELSE IF n = 1 THEN <<>>
  ELSE <<[raw |-> Slice(line.text, column + 1, column + n), column |-> column + 1,
          line |-> line.lineNumber]>>

\* the cells of the maximal runs of non-tab characters of the line from pos on
RECURSIVE ExpectedCellsFrom(_, _)
ExpectedCellsFrom(line, pos) ==
  IF pos >= Len(line.text) THEN <<>>
  ELSE IF CharAt(line.text, pos) = TAB THEN ExpectedCellsFrom(line, pos + 1)
  ELSE ExpectedCell(line, pos, RunLenNot(line.text, pos, {TAB}))
         \o ExpectedCellsFrom(line, pos + RunLenNot(line.text, pos, {TAB}))

OnlyDashes(t) == t # <<>> /\ \A k \in 1..Len(t) : t[k] = "-"

\* the cells of the lines, in order
RECURSIVE ExpectedCells(_)
ExpectedCells(ls) ==
  IF ls = <<>> THEN <<>>
  ELSE (IF OnlyDashes(Head(ls).text) THEN <<>> ELSE ExpectedCellsFrom(Head(ls), 0))
         \o ExpectedCells(Tail(ls))

\* the children of the node that are ListItems, in order
RECURSIVE ListItemsOf(_)
ListItemsOf(children) ==
  IF children = <<>> THEN <<>>
  ELSE (IF Head(children).type = "ListItem" THEN <<Head(children)>> ELSE <<>>)
         \o ListItemsOf(Tail(children))

IsCell(item, cell) ==
  /\ item.raw = cell.raw
  /\ item.loc.start = [line |-> cell.line, column |-> cell.column]
  /\ item.loc.end = [line |-> cell.line, column |-> cell.column + Len(cell.raw)]

CellPerRun(node, chunk) ==
  /\ Len(ListItemsOf(node.children))
       = Len(ExpectedCells(SubSeq(chunk.lines, 2, Len(chunk.lines) - 1)))
  /\ \A k \in 1..Len(ListItemsOf(node.children)) :
       IsCell(ListItemsOf(node.children)[k],
              ExpectedCells(SubSeq(chunk.lines, 2, Len(chunk.lines) - 1))[k])
  /\ \A k \in 1..Len(node.children) : node.children[k].type \in {"ListItem", "Caption"}

ClosedTable(chunk) ==
  /\ chunk.type = "Block"
  /\ BlockNameOf(chunk) = TableName
  /\ Len(chunk.lines) >= 2
  /\ chunk.lines[Len(chunk.lines)].text = BlockCloseLine

\* C15: each body line of a table block yields one ListItem per maximal run
\* of non-tab characters, at the column where the run starts; a cell that
\* starts with "." loses it and starts one column later, a cell empty after
\* that yields no child, and a line of "-" characters only yields none.
C15_TableCellPerRun ==
  \A i \in 1..Len(nodes) :
    ClosedTable(chunks[i]) => nodes[i] # <<>> /\ CellPerRun(nodes[i][1], chunks[i])

\* C15 witness: a table with a line of two cells, a line with a dotted cell
\* and a lone dot, and a line of dashes has been parsed: a Caption and three
\* cells
C15_Witness ==
  /\ pc = "done"
  /\ Len(chunks) = 1
  /\ ClosedTable(chunks[1])
  /\ Len(chunks[1].lines) = 5
  /\ chunks[1].lines[2].text = CellsLine
  /\ chunks[1].lines[3].text = DotCellsLine
  /\ chunks[1].lines[4].text = DashLine
  /\ Len(ast.children[1].children) = 4


(***************************************************************************)
(* Captions                                                                *)
(***************************************************************************)
CaptionSecondNames == {<<"l", "i", "s", "t">>, <<"l", "i", "s", "t", "n", "u", "m">>, TableName, <<"i", "m", "a", "g", "e">>}

CaptionFirstNames == {<<"e", "m", "l", "i", "s", "t">>, <<"e", "m", "l", "i", "s", "t", "n", "u", "m">>}

\* the position, counted from 1, of the argument that is the caption
CaptionPosition(name) == IF name \in CaptionFirstNames THEN 1 ELSE 2

ChildrenOf(node) == IF "children" \in DOMAIN node THEN node.children ELSE <<>>

\* the first child of the node is the only Caption and spans the argument
CaptionSpans(node, arg, line) ==
  /\ ChildrenOf(node) # <<>>
  /\ node.children[1].type = "Caption"
  /\ node.children[1].raw = arg.value
  /\ node.children[1].range
       = <<line.startIndex + arg.startColumn,
           line.startIndex + arg.startColumn + Len(arg.value)>>
  /\ node.children[1].loc.start = [line |-> line.lineNumber, column |-> arg.startColumn]
  /\ node.children[1].loc.end
       = [line |-> line.lineNumber, column |-> arg.startColumn + Len(arg.value)]
  /\ \A k \in 2..Len(node.children) : node.children[k].type # "Caption"

NoCaption(node) ==
  \A k \in 1..Len(ChildrenOf(node)) : node.children[k].type # "Caption"

CaptionFromPosition(node, chunk, position) ==
  /\ ~HasThrown(node)
  /\ IF Len(ArgumentsFrom(chunk.lines[1].text, 0)) >= position
          /\ ArgumentsFrom(chunk.lines[1].text, 0)[position].value # <<>>
     THEN CaptionSpans(node, ArgumentsFrom(chunk.lines[1].text, 0)[position],
                       chunk.lines[1])
     ELSE NoCaption(node)

\* C16: the Caption of a list, listnum, table or image block is its second
\* argument and that of an emlist or emlistnum block its first; when that
\* argument is present and not empty the first child of the block's node is
\* a Caption spanning exactly the argument, and otherwise the node has no
\* Caption child and nothing is raised.
C16_CaptionFromFixedArgument ==
  \A i \in 1..Len(nodes) :
    (chunks[i].type = "Block"
       /\ BlockNameOf(chunks[i]) \in CaptionSecondNames \cup CaptionFirstNames)
      => /\ nodes[i] # <<>>
         /\ CaptionFromPosition(nodes[i][1], chunks[i],
                                CaptionPosition(BlockNameOf(chunks[i])))

\* C16 witness: an emlist block whose only argument is its caption has been
\* parsed
C16_Witness ==
  /\ pc = "done"
  /\ Len(chunks) = 1
  /\ chunks[1].lines[1].text = EmlistOpenLine
  /\ Len(chunks[1].lines) = 3
  /\ ast.children[1].children[1].type = "Caption"
  /\ ast.children[1].children[1].raw = <<"c">>


(***************************************************************************)
(* Paragraphs                                                              *)
(***************************************************************************)
\* the raw texts of the lines but the last, and the text of the last
RECURSIVE RawsButLastTerminator(_)
RawsButLastTerminator(ls) ==
  IF Len(ls) = 1 THEN ls[1].text ELSE ls[1].raw \o RawsButLastTerminator(Tail(ls))

\* the lines follow one another in the input
Consecutive(ls) ==
  \A k \in 1..(Len(ls) - 1) : ls[k + 1].lineNumber = ls[k].lineNumber + 1

\* the inline nodes of the lines, line after line
RECURSIVE InlineNodesOfLines(_)
InlineNodesOfLines(ls) ==
  IF ls = <<>> THEN <<>>
  ELSE parseText(Head(ls).text, contextFromLine(Head(ls), 0))
         \o InlineNodesOfLines(Tail(ls))

ParagraphOfLines(node, ls) ==
  /\ node.type = "Paragraph"
  /\ node.children = InlineNodesOfLines(ls)
  /\ ~HasThrown(node)
       => \A k \in 1..(Len(node.children) - 1) :
            /\ node.children[k].loc.start.line <= node.children[k + 1].loc.start.line
            /\ node.children[k].range[2] <= node.children[k + 1].range[1]
  /\ \A k \in 1..Len(ls) :
       ls[k].text = TextLine
         => \E j \in 1..Len(node.children) :
              /\ node.children[j].type = "Str"
              /\ node.children[j].raw = TextLine
              /\ node.children[j].loc.start = [line |-> ls[k].lineNumber, column |-> 0]
  /\ node.loc.start = [line |-> ls[1].lineNumber, column |-> 0]
  /\ node.loc.end = [line |-> ls[Len(ls)].lineNumber, column |-> Len(ls[Len(ls)].text)]
  /\ node.range = <<ls[1].startIndex, ls[Len(ls)].startIndex + Len(ls[Len(ls)].text)>>
  /\ Consecutive(ls) => node.raw = RawsButLastTerminator(ls)
  /\ Len(ls) > 1 => StartsWith(node.raw, ls[1].raw)
  /\ EndsWith(node.raw, ls[Len(ls)].text)
  /\ node.raw # <<>> => node.raw[Len(node.raw)] \notin LineBreakChars

\* C17: the children of a Paragraph node are the inline nodes of its lines,
\* line after line; its location runs from column 0 of its first line to the
\* length of the text of its last line; its raw holds the line terminators
\* between its lines and not that of its last line.
C17_ParagraphOfItsLines ==
  \A i \in 1..Len(nodes) :
    chunks[i].type = "Paragraph"
      => nodes[i] # <<>> /\ ParagraphOfLines(nodes[i][1], chunks[i].lines)

\* C17 witness: a paragraph of two lines of text ended by CR LF has been
\* parsed into two Str children
C17_Witness ==
  /\ pc = "done"
  /\ Len(chunks) = 1
  /\ chunks[1].type = "Paragraph"
  /\ Len(chunks[1].lines) = 2
  /\ Consecutive(chunks[1].lines)
  /\ chunks[1].lines[1].raw = TextLine \o <<CR, LF>>
  /\ Len(ast.children[1].children) = 2
  /\ ast.children[1].raw = TextLine \o <<CR, LF>> \o TextLine


(***************************************************************************)
(* Headings                                                                *)
(***************************************************************************)
\* the number of "=" the line starts with
LeadingEquals(t) == RunLen(t, 0, {"="})

\* the column at which the trailing label begins: after the "=" run, the
\* characters attached to it ([column], {ch01}) and the white space
LabelColumn(t) ==
  LeadingEquals(t) + RunLenNot(t, LeadingEquals(t), SpaceChars)
    + RunLen(t, LeadingEquals(t) + RunLenNot(t, LeadingEquals(t), SpaceChars), SpaceChars)

\* the trailing label without the white space at its end
RECURSIVE WithoutTrailingSpace(_)
WithoutTrailingSpace(t) ==
  IF t # <<>> /\ t[Len(t)] \in SpaceChars
  THEN WithoutTrailingSpace(SubSeq(t, 1, Len(t) - 1))
  ELSE t

TrailingLabel(t) == WithoutTrailingSpace(SubstrFrom(t, LabelColumn(t)))

HeaderOfLine(node, line) ==
  /\ node.type = "Header"
  /\ node.depth = LeadingEquals(line.text)
  /\ Len(node.children) = 1
  /\ node.children[1].type = "Str"
  /\ node.children[1].raw = TrailingLabel(line.text)
  /\ node.children[1].loc.start
       = [line |-> line.lineNumber, column |-> LabelColumn(line.text)]

\* C18: the depth of a Header node is the number of "=" its line starts
\* with, and the node has exactly one Str child whose raw is the trimmed
\* label and whose start column is the column at which that label begins.
C18_HeaderDepthAndLabel ==
  \A i \in 1..Len(nodes) :
    chunks[i].type = "Heading"
      => nodes[i] # <<>> /\ HeaderOfLine(nodes[i][1], chunks[i].lines[1])


(***************************************************************************)
(* Heading chunks                                                          *)
(***************************************************************************)
\* the step folds line n
FoldsLine(n) == pc = "reduce" /\ lineIndex = n - 1 /\ lineIndex' = n

\* the step adds one chunk, which starts with line n, and leaves the chunks
\* there are as they are
StartsChunkAt(n) ==
  /\ Len(chunker'.result) = Len(chunker.result) + 1
  /\ \A i \in 1..Len(chunker.result) : chunker'.result[i] = chunker.result[i]
  /\ chunker'.result[Len(chunker'.result)].lines[1].lineNumber = n

\* the last chunk is the Heading chunk of line n and no chunk is open
HeadingJustFolded(n) ==
  /\ chunker.cur = 0
  /\ chunker.result # <<>>
  /\ chunker.result[Len(chunker.result)].type = "Heading"
  /\ LastLineNumber(chunker.result[Len(chunker.result)]) = n

\* C19: outside an open block a line that starts with "=" forms a Heading
\* chunk of exactly that line, the chunks before it are left as they are and
\* no chunk is open afterwards; the line after the heading leaves every chunk
\* as it is and starts a new chunk, or none when it is blank.
C19_HeadingIsOneLineChunk ==
  [][/\ (FoldsLine(lineIndex + 1) /\ ~CurrentIs(chunker, "Block")
           /\ StartsWith(LineTextAt(lineIndex + 1), <<"=">>))
          => /\ StartsChunkAt(lineIndex + 1)
             /\ chunker'.result[Len(chunker'.result)].type = "Heading"
             /\ Len(chunker'.result[Len(chunker'.result)].lines) = 1
             /\ chunker'.cur = 0
     /\ (FoldsLine(lineIndex + 1) /\ HeadingJustFolded(lineIndex))
          => IF LineTextAt(lineIndex + 1) = <<>>
             THEN chunker'.result = chunker.result
             ELSE StartsChunkAt(lineIndex + 1)]_vars


(***************************************************************************)
(* Calls of parse                                                          *)
(***************************************************************************)
\* the locals of a call when it has run alone from s to its end
RECURSIVE RunAlone(_)
RunAlone(s) ==
  IF s.pc \in {"done", "thrown"} THEN s ELSE RunAlone(CallStep(<<s>>, 1))

Finished(s) == s.pc \in {"done", "thrown"}

TreeBuilt == pc \in {"walk", "done"} \/ (pc = "thrown" /\ ast # NoNode)

\* C21: the walk of parse leaves the tree as it is: no step of the walk
\* changes it, and while the walk runs, when it has finished and when it has
\* raised, the tree is the Document of the nodes the chunk parsers returned.
C21_WalkLeavesTreeAsBuilt ==
  /\ [][pc = "walk" => ast' = ast]_vars
  /\ [](TreeBuilt => ast = DocumentNode(text, chunks, ConcatNodes(nodes)))

\* C21 witness: the walk has entered nodes of the tree and then raised
C21_Witness ==
  /\ pc = "thrown"
  /\ ast # NoNode
  /\ walkIndex >= 2


(***************************************************************************)
(* Parsing the raw of a node again                                         *)
(***************************************************************************)
\* the type of the node and, recursively, of its children
RECURSIVE Shape(_)
Shape(node) ==
  [type |-> node.type,
   children |-> IF "children" \in DOMAIN node
                THEN [k \in 1..Len(node.children) |-> Shape(node.children[k])]
                ELSE <<>>]

\* the call parse(t) when it has ended
ParseOf(t) == RunAlone(InitCall(t))

\* parse(t) returns a tree that holds a node of the shape of node
ReturnsNodeShaped(t, node) ==
  /\ ParseOf(t).pc = "done"
  /\ \E k \in 1..Len(Preorder(ParseOf(t).ast)) :
       Shape(Preorder(ParseOf(t).ast)[k]) = Shape(node)

\* parse(t) returns a Document whose only child has the shape of node
ReturnsOnlyChildShaped(t, node) ==
  /\ ParseOf(t).pc = "done"
  /\ Len(ParseOf(t).ast.children) = 1
  /\ Shape(ParseOf(t).ast.children[1]) = Shape(node)

AppendsToOpenChunk(n) ==
  /\ Len(chunker'.result) = Len(chunker.result)
  /\ \A i \in 1..Len(chunker.result) :
       i # chunker.cur => chunker'.result[i] = chunker.result[i]
  /\ Len(chunker'.result[chunker.cur].lines) = Len(chunker.result[chunker.cur].lines) + 1
  /\ SubSeq(chunker'.result[chunker.cur].lines, 1, Len(chunker.result[chunker.cur].lines))
       = chunker.result[chunker.cur].lines
  /\ LastLineNumber(chunker'.result[chunker.cur]) = n

\* C23: while a block is open every line folded is appended to its chunk,
\* and the block is closed by the step exactly when the line is the close
\* marker //}; a line that begins with //} and goes on leaves it open.
C23_BlockClosedByCloseMarkerOnly ==
  [][(FoldsLine(lineIndex + 1) /\ CurrentIs(chunker, "Block"))
       => /\ AppendsToOpenChunk(lineIndex + 1)
          /\ IF LineTextAt(lineIndex + 1) = BlockCloseLine
             THEN chunker'.cur = 0
             ELSE chunker'.cur = chunker.cur]_vars


(***************************************************************************)
(* Ruby and href tags                                                      *)
(***************************************************************************)
\* the content of the first tag of the text left, and its pieces
OpenerContent == Slice(restText, ContentStart, FirstClose(restText, ContentStart))

OpenerPieces == SplitComma2(OpenerContent)

\* the node the pass has just pushed for the tag
PushedNode == inlineNodes'[Len(inlineNodes')]

\* the part of the line a node's range designates
DesignatedText(node) ==
  Slice(lineText, node.range[1] - startContext.startIndex,
        node.range[2] - startContext.startIndex)

\* C24: when the first tag of the text left is a ruby tag with base and
\* reading, the pass pushes a Ruby node whose rubyText is the reading and
\* whose one Str child has the base as raw and designates the base inside
\* the line: its column is the tag's column plus the length of @<ruby>{.
C24_RubyChildDesignatesBase ==
  [][(/\ tpc = "loop"
      /\ OpenerIndex >= 0
      /\ OpenerName = RubyTagName
      /\ FirstClose(restText, ContentStart) >= 0
      /\ Len(OpenerPieces) = 2
      /\ inlineNodes' # inlineNodes)
     => /\ PushedNode.type = "Ruby"
        /\ PushedNode.rubyText = OpenerPieces[2]
        /\ Len(PushedNode.children) = 1
        /\ PushedNode.children[1].type = "Str"
        /\ PushedNode.children[1].raw = OpenerPieces[1]
        /\ PushedNode.children[1].loc.start.column =
             context.startColumn + OpenerIndex + Len(TokenRuby)
        /\ PushedNode.children[1].raw = DesignatedText(PushedNode.children[1])]_vars


\* the first separator /\s*,\s*/ of the content of the first tag
OpenerSeparator == FirstSeparator(OpenerContent, 0)

\* the url and the label as claimed: the parts before and after the first
\* separator, the label being the url when there is none
ClaimedUrl ==
  IF OpenerSeparator[1] < 0 THEN OpenerContent
  ELSE Slice(OpenerContent, 0, OpenerSeparator[1])

ClaimedLabel ==
  IF OpenerSeparator[1] < 0 THEN OpenerContent
  ELSE SubstrFrom(OpenerContent, OpenerSeparator[2])

ClaimedLabelOffset == IF OpenerSeparator[1] < 0 THEN 0 ELSE OpenerSeparator[2]

\* C25: when the first tag of the text left is a href tag, the pass pushes
\* a Link node whose url is the content before the first comma and whose
\* one Str child has as raw the whole content after that comma, or the url
\* when there is no comma, stands at the label's offset inside the tag and
\* has each \} of the label turned into } in its value.
C25_HrefSplitAtFirstComma ==
  [][(/\ tpc = "loop"
      /\ OpenerIndex >= 0
      /\ OpenerName = HrefTagName
      /\ FirstClose(restText, ContentStart) >= 0
      /\ inlineNodes' # inlineNodes)
     => /\ PushedNode.type = "Link"
        /\ PushedNode.url = ClaimedUrl
        /\ Len(PushedNode.children) = 1
        /\ PushedNode.children[1].type = "Str"
        /\ PushedNode.children[1].raw = ClaimedLabel
        /\ PushedNode.children[1].range[1] =
             context.startIndex + ContentStart + ClaimedLabelOffset
        /\ PushedNode.children[1].value = UnescapeChar(ClaimedLabel, "}")]_vars


(***************************************************************************)
(* Tags without a parser                                                   *)
(***************************************************************************)
\* the Str node of the text before the first opener, if any
PrecedingStr ==
  IF OpenerIndex > 0
  THEN <<createStrNode(Slice(restText, 0, OpenerIndex), context)>>
  ELSE <<>>

\* C26: when the first tag of the text left is complete and its name is not
\* a key of InlineParsers, the pass pushes nothing but the Str of the text
\* before the tag, and moves the context and the text left past the tag's
\* closing brace.
C26_TagWithoutParserAddsNothing ==
  [][(/\ tpc = "loop"
      /\ OpenerIndex >= 0
      /\ OpenerName \notin InlineParserNames
      /\ FirstClose(restText, ContentStart) >= 0)
     => /\ inlineNodes' = inlineNodes \o PrecedingStr
        /\ context'.startIndex =
             context.startIndex + FirstClose(restText, ContentStart) + 1
        /\ restText' = SubstrFrom(restText, FirstClose(restText, ContentStart) + 1)]_vars


(***************************************************************************)
(* A tag inside the content of a tag                                       *)
(***************************************************************************)
\* the first tag of what follows the opening brace of the first opener
InnerTag == findInlineTag(SubstrFrom(restText, ContentStart))

\* the indices, in the text left, of the opener and closing brace of InnerTag
InnerOpen == ContentStart + Len(InnerTag.precedingText)

InnerClose == InnerOpen + Len(InnerTag.fullText) - 1

\* the closing brace of the outer tag: the first one after the inner tag
\* that no backslash precedes
OwnClose == FirstClose(restText, InnerClose + 1)

\* the content of the first tag of the text left holds a complete tag
HoldsInnerTag ==
  /\ OpenerIndex >= 0
  /\ OpenerName \in TextTagNames
  /\ InnerTag.found
  /\ InnerTag.name \in InlineParserNames
  /\ FirstClose(restText, ContentStart) > InnerOpen
  /\ OwnClose >= 0

\* C27: when the content of the first tag of the text left, a text-wrapping
\* tag, holds a complete tag, the pass pushes a node whose raw runs up to the
\* outer tag's own closing brace and below which a tag node stands whose raw
\* is the inner tag.
C27_InnerTagNestedBelowOuter ==
  [][(tpc = "loop" /\ HoldsInnerTag)
     => /\ PushedNode.raw = Slice(restText, OpenerIndex, OwnClose + 1)
        /\ \E k \in 2..Len(Preorder(PushedNode)) :
             /\ Preorder(PushedNode)[k].type # "Str"
             /\ Preorder(PushedNode)[k].raw = InnerTag.fullText]_vars


(***************************************************************************)
(* The chunks and the lines                                                *)
(***************************************************************************)
\* the chunks of the result that hold line n
ChunksHolding(n) ==
  {i \in 1..Len(chunker.result) : HoldsLine(chunker.result[i], n)}

\* the line numbers of the chunk grow strictly
LinesAscend(chunk) ==
  \A k \in 1..(Len(chunk.lines) - 1) :
    chunk.lines[k].lineNumber < chunk.lines[k + 1].lineNumber

\* C28: whatever lines have been folded, every chunk of the result has a
\* line, its line numbers grow strictly, the chunks stand in the order of
\* their first lines, each ends before the next starts, so that a line is in
\* one chunk at most, and a line that is neither empty nor a comment line is
\* in exactly one.
C28_ChunksPartitionLines ==
  /\ \A i \in 1..Len(chunker.result) :
       /\ Len(chunker.result[i].lines) >= 1
       /\ LinesAscend(chunker.result[i])
  /\ \A i \in 1..(Len(chunker.result) - 1) :
       /\ FirstLineNumber(chunker.result[i]) < FirstLineNumber(chunker.result[i + 1])
       /\ LastLineNumber(chunker.result[i]) < FirstLineNumber(chunker.result[i + 1])
  /\ \A n \in 1..lineIndex :
       /\ Cardinality(ChunksHolding(n)) <= 1
       /\ (LineTextAt(n) # <<>> /\ ~IsCommentLine(LineTextAt(n)))
            => Cardinality(ChunksHolding(n)) = 1
  /\ \A i \in 1..Len(chunker.result) :
       \A k \in 1..Len(chunker.result[i].lines) :
         chunker.result[i].lines[k].lineNumber \in 1..lineIndex

\* C28 witness: all lines are folded into two chunks or more, one of them
\* of several lines, and a comment line and an empty line are in none
C28_Witness ==
  /\ pc = "reduce"
  /\ lineIndex = Len(lines)
  /\ Len(chunker.result) >= 2
  /\ \E i \in 1..Len(chunker.result) : Len(chunker.result[i].lines) >= 2
  /\ \E n \in 1..lineIndex :
       (LineTextAt(n) = <<>> \/ IsCommentLine(LineTextAt(n))) /\ ChunksHolding(n) = {}


(***************************************************************************)
(* Inputs without a chunk                                                  *)
(***************************************************************************)
\* every line of the text is empty or a comment line; the empty text has
\* no line
BlankOrCommentOnly(t) ==
  \A n \in 1..Len(SplitLines(t)) :
    \/ StripLineEnding(SplitLines(t)[n]) = <<>>
    \/ IsCommentLine(StripLineEnding(SplitLines(t)[n]))

Ascends(indices) == \A k \in 1..(Len(indices) - 1) : indices[k] < indices[k + 1]

\* C30: parseText ends on every line. Each pass of its loop leaves a text
\* that is a strictly shorter suffix of the text it searched; in each search
\* the index the scan for the closing brace starts from grows strictly from
\* pass to pass and stays within the text; so parseText returns or raises,
\* and when it returns with text left, that text is the last Str pushed.
C30_ParseTextTerminates ==
  /\ [][(tpc = "loop" /\ findInlineTag(restText).found)
          => (Len(restText') < Len(restText) /\ EndsWith(restText, restText'))]_vars
  /\ [](tpc = "loop" /\ OpenerIndex >= 0
          => /\ Ascends(ScanIndices(restText, ContentStart))
             /\ \A k \in 1..Len(ScanIndices(restText, ContentStart)) :
                  ScanIndices(restText, ContentStart)[k] <= Len(restText))
  /\ <>(tpc \in {"done", "thrown"})
  /\ [](tpc = "done" /\ restText # <<>>
          => /\ inlineNodes # <<>>
             /\ inlineNodes[Len(inlineNodes)].type = "Str"
             /\ inlineNodes[Len(inlineNodes)].raw = restText)

\* C30 witness: parseText has returned after a pass whose scan skipped an
\* escaped brace, with text left after the tag
C30_Witness ==
  /\ tpc = "done"
  /\ OpenerNameLenAt(lineText, 0) > 0
  /\ Len(ScanIndices(lineText, OpenerNameLenAt(lineText, 0) + 4)) >= 2
  /\ Len(inlineNodes) = 2
  /\ restText # <<>>

=============================================================================
